---- MODULE Spec2Model ----
(***************************************************************************)
(* State-machine model of the Vulkan command scheduler (Scheduler,         *)
(* CommandChunk, worker thread), its tick timeline (MasterSemaphore) and   *)
(* the frame presentation pipeline (PresentManager).                       *)
(*                                                                         *)
(* Threads: the producer (render-logic thread) runs one API call at a      *)
(* time; the call's remaining steps are kept in `todo` and taken one at a  *)
(* time, so that the worker thread, the present thread and the GPU         *)
(* interleave with it at every point where the code takes a mutex, waits   *)
(* or touches shared data.                                                 *)
(***************************************************************************)
EXTENDS Integers, Sequences, FiniteSets, TLC

\* Number of API calls the producer makes in one run.
MaxOps == 4
\* Number of closures that fit in the arena of one CommandChunk.
ChunkCapacity == 2
\* Number of API calls the renderer makes in one run of the presentation loop.
MaxFrameOps == 4
\* Number of presentation conditions (swapchain out of date, surface lost)
\* the window system raises in one run.
MaxFaults == 1
\* Number of graphics pipelines the renderer switches between.
MaxPipelines == 2
\* Number of fences the FenceManager creates.
MaxFences == 2
\* Largest image count a swapchain reports.
MaxSwapchainImages == 3
\* PresentManager::SetImageCount: MAX_FRAMES_IN_FLIGHT
MAX_FRAMES_IN_FLIGHT == 3
\* Largest number of attachments of a framebuffer.
MaxAttachments == 10
\* API calls of the renderer in a run of the render loop
MaxLoopOps == 8
\* Scheduler::EndRenderPass: MAX_BARRIERS, the size of the barrier array
MAX_BARRIERS == 9
\* Bits of the u32 memory-type masks, one per memory type a device can report
VK_MAX_MEMORY_TYPES == 32

VARIABLES
    chunk,            \* Scheduler::chunk, the producer's current CommandChunk
    work_queue,       \* Scheduler::work_queue
    chunk_reserve,    \* Scheduler::chunk_reserve
    chunks_made,      \* number of CommandChunk objects allocated so far
    state,            \* Scheduler::state, the change-detection cache
    next_tick,        \* MasterSemaphore: the tick NextTick() hands out next
    gpu_value,        \* MasterSemaphore: value of the timeline semaphore
    gpu_queue,        \* batches submitted to the graphics queue, not yet completed
    mutex,            \* owner of each mutex ("free" when unlocked)
    stop_requested,   \* stop state of worker_thread's stop token
    pc_w,             \* position of Scheduler::WorkerThread
    work,             \* WorkerThread: the chunk popped from the queue
    is_submission,    \* WorkerThread: work->HasSubmit() taken before ExecuteAll
    cmdbuf_gen,       \* number of AllocateWorkerCommandBuffer calls of the worker
    todo,             \* producer: remaining steps of the API call in progress
    signal_value,     \* producer: local of Flush/Finish, SubmitExecution's result
    alive,            \* FALSE once the Scheduler is destroyed
    nops,             \* number of API calls started
    rec_count,        \* number of closures recorded so far (the last stamp)
    executed,         \* stamps of the closures the worker executed, in order
    submitted,        \* signal values passed to MasterSemaphore::SubmitQueue
    gpu_done,         \* ticks whose submission the GPU has completed
    flushed,          \* ticks returned by Flush, in call order
    assigned,         \* ticks taken by SubmitExecution, in call order
    last_ret,         \* the API call that returned last, until the next begins
    op_limit,         \* number of API calls the producer makes in this run
    device,           \* Device: device-lost results returned, ReportLoss calls,
                      \* exceptions thrown for a lost device
    call,             \* the API call in progress or returned last, and what is
                      \* remembered of the one before it
    fences,           \* the InnerFences of the FenceManager, by index
    teardown,         \* what the destructors have done so far, in order
    recorded,         \* kinds of the closures recorded so far, in order
    submitting,       \* threads inside a native queue submission
    barrier,          \* the closure EndRenderPass records, as the worker runs it
    allocator,        \* the MemoryAllocator and the device it was made for
    sync,             \* binary semaphores signaled, copies the GPU has executed,
                      \* present requests made and images displayed
    use_present_thread, \* PresentManager::use_present_thread
    image_count,      \* PresentManager::image_count; the frames are 1..image_count
    free_queue,       \* PresentManager::free_queue
    present_queue,    \* PresentManager::present_queue
    present_done,     \* Frame::present_done of each frame: TRUE when signaled
    held,             \* frames the renderer got and has not presented yet
    rframe,           \* GetRenderFrame: its local `frame`
    pc_t,             \* position of PresentManager::PresentThread
    pframe,           \* PresentThread: its local `frame`
    present_stop,     \* stop state of present_thread's stop token
    copy,             \* the CopyToSwapchain call in progress, if any
    faults,           \* presentation conditions raised so far
    recycled          \* number of frames put back in the free queue

sched_vars == <<chunk, work_queue, chunk_reserve, chunks_made, state, next_tick,
                gpu_value, gpu_queue, mutex, stop_requested, pc_w, work,
                is_submission, cmdbuf_gen, todo, signal_value, alive, nops,
                rec_count, executed, submitted, gpu_done, flushed, assigned,
                last_ret>>

present_vars == <<use_present_thread, image_count, free_queue, present_queue,
                  present_done, held, rframe, pc_t, pframe, present_stop, copy,
                  faults, recycled>>

vars == <<sched_vars, op_limit, device, call, fences, teardown, recorded, submitting, sync,
          barrier, allocator,
          present_vars>>

----------------------------------------------------------------------------
\* Values

NoChunk == [id |-> 0, cmds |-> <<>>, submit |-> FALSE]

\* A recorded closure: its kind, its stamp (position in recording order) and
\* its captured values (of a submission closure: the signal value, and the
\* signal semaphore as the Frame whose render_ready it is, 0 for
\* VK_NULL_HANDLE).
Cmd(kind, stamp, val, sem) == [kind |-> kind, stamp |-> stamp, val |-> val, sem |-> sem]

\* One pending step of the producer's API call.
Step(op) == [op |-> op, kind |-> "", val |-> 0, sem |-> 0]
RecordStep(kind, val) == [op |-> "Record", kind |-> kind, val |-> val, sem |-> 0]
ReturnStep(name) == [op |-> "Return", kind |-> name, val |-> 0, sem |-> 0]
WaitStep(tick) == [op |-> "WaitUntilTick", kind |-> "", val |-> tick, sem |-> 0]

MutexNames == {"queue_mutex", "execution_mutex", "reserve_mutex", "submit_mutex",
               "present_queue_mutex", "swapchain_mutex", "free_mutex"}

Lock(m, who) == [mutex EXCEPT ![m] = who]
Unlock(m) == [mutex EXCEPT ![m] = "free"]

NullState == [renderpass |-> 0, framebuffer |-> 0, render_area |-> 0,
              graphics_pipeline |-> 0, rescaling_defined |-> FALSE, is_rescaling |-> FALSE]

\* An InnerFence that CreateFence has not made yet.
NoFence == [created |-> FALSE, is_stubbed |-> FALSE, wait_tick |-> 0, queued |-> 0,
            first_tick |-> 0]

\* PresentManager::PresentManager: the render_ready semaphore of every Frame is
\* created unsignaled; nothing was copied, presented or displayed yet.
NoSync == [render_ready |-> {}, transferred |-> <<>>, requests |-> <<>>, displayed |-> 0]

\* The closure of EndRenderPass before it runs: the barrier array (slots
\* 0..MAX_BARRIERS-1) is uninitialized, nothing was written outside it and no
\* command was put in the command buffer.
NoBarrier == [pc |-> "idle", num_images |-> 0, barrier_count |-> 0, i |-> 0,
              barriers |-> [slot \in 0..(MAX_BARRIERS - 1) |-> "unset"],
              overrun |-> FALSE, cmds |-> <<>>]

\* No MemoryAllocator constructed yet.
NoAllocator == [pc |-> "none"]

\* No API call made yet.
NoCall == [name |-> "none", arg |-> 0, result |-> "none", begins |-> 0, repeat |-> FALSE,
           prev_result |-> "none", prev_begins |-> 0, quiet |-> TRUE]

----------------------------------------------------------------------------
\* MasterSemaphore (vk_master_semaphore.h is not among the sources)

\* MasterSemaphore::IsSignaled: the timeline value has reached the tick.
IsSignaled(tick) == gpu_value >= tick

\* MasterSemaphore::GetValue: the timeline value.
GetValue == gpu_value

\* MasterSemaphore::PeekNextTick
PeekNextTick == next_tick

----------------------------------------------------------------------------
\* Scheduler: tick queries

\* Mutant: compares against the value after the tick's own.
IsTickCompleted_OffByOne(tick) == IsSignaled(tick - 1)

IsTickCompleted(tick) == IsSignaled(tick)

GetCompletedTick == GetValue

----------------------------------------------------------------------------
\* CommandChunk

\* CommandChunk::Empty
Empty(c) == c.cmds = <<>>

\* CommandChunk::HasSubmit
HasSubmit(c) == c.submit

\* CommandChunk::Record: FALSE when the arena has no room for the closure.
ChunkHasRoom(c) == Len(c.cmds) < ChunkCapacity

----------------------------------------------------------------------------
\* Initial state

Min(a, b) == IF a < b THEN a ELSE b
Max(a, b) == IF a > b THEN a ELSE b

\* Mutant: a swapchain of one image gives a ring of one frame.
SetImageCount_AtLeastOne(swapchain_images) ==
    Max(Min(swapchain_images, MAX_FRAMES_IN_FLIGHT), 1)

\* PresentManager::SetImageCount: the swapchain's image count, at most
\* MAX_FRAMES_IN_FLIGHT and at least 2.
SetImageCount(swapchain_images) == Max(Min(swapchain_images, MAX_FRAMES_IN_FLIGHT), 2)

NoCopy == [pc |-> "idle", frame |-> 0, requires_recreation |-> FALSE, log |-> <<>>]

\* Scheduler::Scheduler: a first chunk, the first command buffers, the worker.
SchedulerInit ==
    /\ chunk = [id |-> 1, cmds |-> <<>>, submit |-> FALSE]
    /\ work_queue = <<>>
    /\ chunk_reserve = <<>>
    /\ chunks_made = 1
    /\ state = NullState
    /\ next_tick = 1
    /\ gpu_value = 0
    /\ gpu_queue = <<>>
    /\ mutex = [m \in MutexNames |-> "free"]
    /\ stop_requested = FALSE
    /\ pc_w = "top"
    /\ work = NoChunk
    /\ is_submission = FALSE
    /\ cmdbuf_gen = 1
    /\ todo = <<>>
    /\ signal_value = 0
    /\ alive = TRUE
    /\ nops = 0
    /\ rec_count = 0
    /\ executed = <<>>
    /\ submitted = <<>>
    /\ gpu_done = {}
    /\ flushed = <<>>
    /\ assigned = <<>>
    /\ last_ret = "none"
    /\ call = NoCall
    /\ device = [lost |-> 0, reported |-> 0, thrown |-> 0]
    /\ fences = [f \in 1..MaxFences |-> NoFence]
    /\ teardown = <<>>
    /\ recorded = <<>>
    /\ submitting = {}
    /\ barrier = NoBarrier
    /\ allocator = NoAllocator

\* PresentManager::PresentManager: image_count frames, each with its fence
\* created signaled, all in the free queue; the present thread is started in
\* asynchronous mode only.
PresentManagerInit(async, swapchain_images) ==
    /\ use_present_thread = async
    /\ image_count = SetImageCount(swapchain_images)
    /\ free_queue = [i \in 1..SetImageCount(swapchain_images) |-> i]
    /\ present_queue = <<>>
    /\ present_done = [f \in 1..SetImageCount(swapchain_images) |-> TRUE]
    /\ held = {}
    /\ rframe = 0
    /\ pc_t = IF async THEN "top" ELSE "none"
    /\ pframe = 0
    /\ present_stop = FALSE
    /\ copy = NoCopy
    /\ faults = 0
    /\ recycled = 0
    /\ sync = NoSync

\* The scheduler on its own: the renderer makes MaxOps scheduler calls.
Init ==
    /\ SchedulerInit
    /\ op_limit = MaxOps
    /\ PresentManagerInit(FALSE, 2)

\* The presentation loop, in either mode, over any swapchain image count.
PresentInit ==
    /\ SchedulerInit
    /\ op_limit = MaxFrameOps
    /\ \E async \in BOOLEAN, swapchain_images \in 1..MaxSwapchainImages :
           PresentManagerInit(async, swapchain_images)

----------------------------------------------------------------------------
\* Producer thread: the start of each API call

worker_vars == <<pc_w, work, is_submission, cmdbuf_gen, executed, submitted>>
gpu_vars == <<gpu_value, gpu_queue, gpu_done>>
queue_vars == <<chunk, work_queue, chunk_reserve, chunks_made>>

\* The producer is between two API calls and may start another.
ProducerIdle == alive /\ todo = <<>> /\ nops < op_limit

\* What every API call's first step does to the bookkeeping.
Begin(steps) ==
    /\ ProducerIdle
    /\ todo' = steps
    /\ nops' = nops + 1
    /\ last_ret' = "none"

\* The closures of Present calls that are recorded in the Scheduler and that
\* the worker has not executed yet.
PendingPresents ==
    {c \in {chunk.cmds[i] : i \in 1..Len(chunk.cmds)}
            \cup UNION {{work_queue[k].cmds[i] : i \in 1..Len(work_queue[k].cmds)} :
                          k \in 1..Len(work_queue)}
            \cup {work.cmds[i] : i \in 1..Len(work.cmds)} : c.kind = "present"}

\* The bookkeeping of a call that begins: its name and argument, its result
\* and the begin-render-pass closures it records (none so far), whether it
\* repeats the call before it, the result and the begin-render-pass closures
\* of that call, and whether no Present closure was waiting in the Scheduler
\* when it began.
Called(name, arg) ==
    [name |-> name, arg |-> arg, result |-> "none", begins |-> 0,
     repeat |-> (call.name = name /\ call.arg = arg),
     prev_result |-> call.result, prev_begins |-> call.begins,
     quiet |-> (PendingPresents = {})]

\* Scheduler::Record(closure), called by the renderer with its own closure.
Record ==
    /\ Begin(<<RecordStep("user", 0), ReturnStep("Record")>>)
    /\ call' = Called("Record", 0)
    /\ UNCHANGED <<op_limit, barrier, allocator, sync, fences, teardown, recorded, submitting, device, present_vars, queue_vars, state, next_tick, gpu_vars, mutex, stop_requested,
                   worker_vars, signal_value, alive, rec_count, flushed, assigned>>

\* Scheduler::Flush: SubmitExecution, AllocateNewContext, return the tick.
Flush ==
    /\ Begin(<<Step("SubmitExecution"), ReturnStep("Flush")>>)
    /\ call' = Called("Flush", 0)
    /\ UNCHANGED <<op_limit, barrier, allocator, sync, fences, teardown, recorded, submitting, device, present_vars, queue_vars, state, next_tick, gpu_vars, mutex, stop_requested,
                   worker_vars, signal_value, alive, rec_count, flushed, assigned>>

\* Mutant: Finish without the wait for its tick.
Finish_NoWait ==
    /\ Begin(<<Step("SubmitExecution"), ReturnStep("Finish")>>)
    /\ call' = Called("Finish", 0)
    /\ UNCHANGED <<op_limit, barrier, allocator, sync, fences, teardown, recorded, submitting, device, present_vars, queue_vars, state, next_tick, gpu_vars, mutex, stop_requested,
                   worker_vars, signal_value, alive, rec_count, flushed, assigned>>

\* Scheduler::Finish: SubmitExecution, WaitUntilTick(signal_value),
\* AllocateNewContext.
Finish ==
    /\ Begin(<<Step("SubmitExecution"), Step("WaitSignalValue"), ReturnStep("Finish")>>)
    /\ call' = Called("Finish", 0)
    /\ UNCHANGED <<op_limit, barrier, allocator, sync, fences, teardown, recorded, submitting, device, present_vars, queue_vars, state, next_tick, gpu_vars, mutex, stop_requested,
                   worker_vars, signal_value, alive, rec_count, flushed, assigned>>

\* Scheduler::WaitWorker: DispatchWork, wait for the queue to be empty, take
\* execution_mutex, WaitUntilTick(GetCompletedTick()).
WaitWorker ==
    /\ Begin(<<Step("DispatchWork"), Step("WaitQueueEmpty"), Step("LockExecution"),
               ReturnStep("WaitWorker")>>)
    /\ call' = Called("WaitWorker", 0)
    /\ UNCHANGED <<op_limit, barrier, allocator, sync, fences, teardown, recorded, submitting, device, present_vars, queue_vars, state, next_tick, gpu_vars, mutex, stop_requested,
                   worker_vars, signal_value, alive, rec_count, flushed, assigned>>

\* Scheduler::~Scheduler: request_stop, notify_all, join; the members
\* (command_pool, master_semaphore) are destroyed after the destructor body.
Destroy ==
    /\ Begin(<<Step("Join"), Step("DestroyMembers")>>)
    /\ stop_requested' = TRUE
    /\ teardown' = Append(teardown, "worker.request_stop")
    /\ call' = Called("Destroy", 0)
    /\ UNCHANGED <<op_limit, barrier, allocator, sync, fences, recorded, submitting, device, present_vars, queue_vars, state, next_tick, gpu_vars, mutex,
                   worker_vars, signal_value, alive, rec_count, flushed, assigned>>

----------------------------------------------------------------------------
\* Producer thread: the steps inside an API call

Cur == todo[1]
At(op) == todo # <<>> /\ Cur.op = op

\* Scheduler::EndRenderPass: with a render pass open, records the closure
\* that ends it (and its barriers) and clears the cached render pass.
EndRenderPass == IF state.renderpass # 0 THEN <<RecordStep("end", 0)>> ELSE <<>>

\* Scheduler::EndPendingOperations
EndPendingOperations == EndRenderPass

\* Mutant: the cached render pass survives the invalidation.
InvalidateState_KeepsRenderpass ==
    [state EXCEPT !.graphics_pipeline = 0, !.rescaling_defined = FALSE]

\* Scheduler::InvalidateState
InvalidateState ==
    [state EXCEPT !.graphics_pipeline = 0, !.rescaling_defined = FALSE,
                  !.renderpass = 0, !.framebuffer = 0]

\* The cache after EndRenderPass.
EndRenderPassState ==
    IF state.renderpass # 0 THEN [state EXCEPT !.renderpass = 0, !.framebuffer = 0] ELSE state

\* The framebuffers the renderer draws to: render pass, handle and render
\* area of each. The second differs from the first in the handle, the third
\* in the render area only.
Framebuffers ==
    <<[renderpass |-> 1, handle |-> 1, render_area |-> 1],
      [renderpass |-> 1, handle |-> 2, render_area |-> 1],
      [renderpass |-> 1, handle |-> 1, render_area |-> 2]>>

\* RequestRenderpass: the framebuffer is the one of the active render pass.
SameRenderpass(framebuffer) ==
    /\ state.renderpass = framebuffer.renderpass
    /\ state.framebuffer = framebuffer.handle
    /\ state.render_area = framebuffer.render_area

\* Mutant: the render area of the new render pass is not cached.
RequestRenderpass_AreaNotCached ==
    \E fb \in 1..Len(Framebuffers) :
        /\ call' = [Called("RequestRenderpass", fb) EXCEPT
                      !.result = IF SameRenderpass(Framebuffers[fb]) THEN "same" ELSE "changed"]
        /\ IF SameRenderpass(Framebuffers[fb])
             THEN /\ Begin(<<ReturnStep("RequestRenderpass")>>)
                  /\ UNCHANGED state
             ELSE /\ Begin(EndRenderPass \o <<RecordStep("begin", fb),
                                              ReturnStep("RequestRenderpass")>>)
                  /\ state' = [state EXCEPT !.renderpass = Framebuffers[fb].renderpass,
                                            !.framebuffer = Framebuffers[fb].handle]
        /\ UNCHANGED <<op_limit, barrier, allocator, sync, fences, teardown, recorded, submitting, device, present_vars, queue_vars, next_tick, gpu_vars, mutex,
                       stop_requested, worker_vars, signal_value, alive, rec_count, flushed,
                       assigned>>

\* Scheduler::RequestRenderpass(framebuffer): nothing to do when the
\* framebuffer is the one of the active render pass; otherwise the active
\* render pass is ended, the cache takes render pass, handle and render area
\* of the framebuffer, and the begin-render-pass closure is recorded.
RequestRenderpass ==
    \E fb \in 1..Len(Framebuffers) :
        /\ call' = [Called("RequestRenderpass", fb) EXCEPT
                      !.result = IF SameRenderpass(Framebuffers[fb]) THEN "same" ELSE "changed"]
        /\ IF SameRenderpass(Framebuffers[fb])
             THEN /\ Begin(<<ReturnStep("RequestRenderpass")>>)
                  /\ UNCHANGED state
             ELSE /\ Begin(EndRenderPass \o <<RecordStep("begin", fb),
                                              ReturnStep("RequestRenderpass")>>)
                  /\ state' = [state EXCEPT !.renderpass = Framebuffers[fb].renderpass,
                                            !.framebuffer = Framebuffers[fb].handle,
                                            !.render_area = Framebuffers[fb].render_area]
        /\ UNCHANGED <<op_limit, barrier, allocator, sync, fences, teardown, recorded, submitting, device, present_vars, queue_vars, next_tick, gpu_vars, mutex,
                       stop_requested, worker_vars, signal_value, alive, rec_count, flushed,
                       assigned>>

\* Scheduler::RequestOutsideRenderPassOperationContext: EndRenderPass.
RequestOutsideRenderPassOperationContext ==
    /\ Begin(EndRenderPass \o <<ReturnStep("RequestOutsideRenderPassOperationContext")>>)
    /\ call' = Called("RequestOutsideRenderPassOperationContext", 0)
    /\ state' = EndRenderPassState
    /\ UNCHANGED <<op_limit, barrier, allocator, sync, fences, teardown, recorded, submitting, device, present_vars, queue_vars, next_tick, gpu_vars, mutex,
                   stop_requested, worker_vars, signal_value, alive, rec_count, flushed,
                   assigned>>

\* Mutant: the pipeline is compared but not cached.
UpdateGraphicsPipeline_NotCached ==
    \E pipeline \in 1..MaxPipelines :
        /\ Begin(<<ReturnStep("UpdateGraphicsPipeline")>>)
        /\ call' = [Called("UpdateGraphicsPipeline", pipeline) EXCEPT
                      !.result = IF state.graphics_pipeline = pipeline THEN "false" ELSE "true"]
        /\ state' = state
        /\ UNCHANGED <<op_limit, barrier, allocator, sync, fences, teardown, recorded, submitting, device, present_vars, queue_vars, next_tick, gpu_vars, mutex,
                       stop_requested, worker_vars, signal_value, alive, rec_count, flushed,
                       assigned>>

\* Scheduler::UpdateGraphicsPipeline(pipeline): false when the pipeline is the
\* cached one; otherwise it is cached and the result is true.
UpdateGraphicsPipeline ==
    \E pipeline \in 1..MaxPipelines :
        /\ Begin(<<ReturnStep("UpdateGraphicsPipeline")>>)
        /\ call' = [Called("UpdateGraphicsPipeline", pipeline) EXCEPT
                      !.result = IF state.graphics_pipeline = pipeline THEN "false" ELSE "true"]
        /\ state' = [state EXCEPT !.graphics_pipeline = pipeline]
        /\ UNCHANGED <<op_limit, barrier, allocator, sync, fences, teardown, recorded, submitting, device, present_vars, queue_vars, next_tick, gpu_vars, mutex,
                       stop_requested, worker_vars, signal_value, alive, rec_count, flushed,
                       assigned>>

\* What UpdateRescaling(is_rescaling) returns.
\* Mutant: the flag alone is compared.
RescalingChanged_FlagOnly(is_rescaling) == is_rescaling # state.is_rescaling

RescalingChanged(is_rescaling) ==
    ~(state.rescaling_defined /\ is_rescaling = state.is_rescaling)

\* Scheduler::UpdateRescaling(is_rescaling): false when the rescaling state is
\* defined and equal to the flag; otherwise the flag is cached, the state is
\* defined and the result is true. The call's argument is kept as 1 for true
\* and 0 for false.
UpdateRescaling ==
    \E is_rescaling \in BOOLEAN :
        /\ Begin(<<ReturnStep("UpdateRescaling")>>)
        /\ call' = [Called("UpdateRescaling", IF is_rescaling THEN 1 ELSE 0) EXCEPT
                      !.result = IF RescalingChanged(is_rescaling) THEN "true" ELSE "false"]
        /\ state' = IF RescalingChanged(is_rescaling)
                      THEN [state EXCEPT !.rescaling_defined = TRUE,
                                         !.is_rescaling = is_rescaling]
                      ELSE state
        /\ UNCHANGED <<op_limit, barrier, allocator, sync, fences, teardown, recorded, submitting, device, present_vars, queue_vars, next_tick, gpu_vars, mutex,
                       stop_requested, worker_vars, signal_value, alive, rec_count, flushed,
                       assigned>>

----------------------------------------------------------------------------
\* MemoryAllocator

\* 256_MiB, in bytes.
MiB256 == 256 * 1024 * 1024

\* What a memory type of a device is like: its property flags and the size of
\* its heap.
MemoryTypeKinds ==
    [device_local : BOOLEAN, host_visible : BOOLEAN,
     heap_size : {MiB256 - 1, MiB256, MiB256 + 1}]

\* The numbers of memory types of the devices looked at.
MemoryTypeCounts == {1, 2, 3, VK_MAX_MEMORY_TYPES}

\* The memory types of the devices looked at, by index from 0: the first few
\* types are of one kind and the others of another.
MemoryTypeLayouts ==
    {[i \in 0..(count - 1) |-> IF i < split THEN kinds[1] ELSE kinds[2]] :
        <<count, split, kinds>> \in
            {t \in MemoryTypeCounts \X (0..VK_MAX_MEMORY_TYPES)
                     \X (MemoryTypeKinds \X MemoryTypeKinds) : t[2] <= t[1]}}

\* MemoryAllocator::ForEachDeviceLocalHostVisibleHeap: the indices of the
\* memory types func is called for.
ForEachDeviceLocalHostVisibleHeap(memory_types) ==
    {i \in DOMAIN memory_types :
        memory_types[i].device_local /\ memory_types[i].host_visible}

\* The test the constructor's callback makes on the heap of a type.
SmallHeap(heap_size) == heap_size <= MiB256

\* MemoryAllocator::MemoryAllocator: with a debugging tool attached,
\* disallowed_memory_types_for_stream gets the bit of every device-local
\* host-visible type whose heap is small. The mask is kept as the set of the
\* indices of its set bits.
MemoryAllocatorCtor ==
    /\ allocator.pc = "none"
    /\ \E memory_types \in MemoryTypeLayouts, debugging \in BOOLEAN :
           allocator' =
               [pc |-> "constructed", memory_types |-> memory_types,
                debugging |-> debugging,
                disallowed_memory_types_for_stream |->
                    IF debugging
                      THEN {i \in ForEachDeviceLocalHostVisibleHeap(memory_types) :
                               SmallHeap(memory_types[i].heap_size)}
                      ELSE {},
                usage |-> "none", memoryTypeBits |-> {}]
    /\ UNCHANGED <<op_limit, barrier, sync, fences, teardown, recorded, submitting, device, call,
                   present_vars, sched_vars>>

MemoryUsages == {"DeviceLocal", "Upload", "Download", "Stream"}

\* ~mask of a u32 mask.
Complement(mask) == (0..(VK_MAX_MEMORY_TYPES - 1)) \ mask

\* MemoryAllocator::CreateBuffer(ci, usage): alloc_ci.memoryTypeBits is
\* ~disallowed_memory_types_for_stream for a Stream buffer and 0 otherwise.
CreateBuffer ==
    /\ allocator.pc \in {"constructed", "created"}
    /\ \E usage \in MemoryUsages :
           allocator' =
               [allocator EXCEPT
                  !.pc = "created", !.usage = usage,
                  !.memoryTypeBits =
                      IF usage = "Stream"
                        THEN Complement(allocator.disallowed_memory_types_for_stream)
                        ELSE {}]
    /\ UNCHANGED <<op_limit, barrier, sync, fences, teardown, recorded, submitting, device, call,
                   present_vars, sched_vars>>

\* vmaCreateBuffer: the memory types the allocation may come from. A
\* memoryTypeBits of 0 accepts every type.
AcceptedTypes ==
    IF allocator.memoryTypeBits = {}
      THEN DOMAIN allocator.memory_types
      ELSE DOMAIN allocator.memory_types \cap allocator.memoryTypeBits

----------------------------------------------------------------------------
\* The closure Scheduler::EndRenderPass records, run by the worker

\* The closure starts: num_images is the captured num_renderpass_images, the
\* attachment count of the framebuffer of the pass that ends.
EndRenderPassClosure ==
    /\ barrier.pc = "idle"
    /\ \E num_images \in 0..MaxAttachments :
           barrier' = [NoBarrier EXCEPT !.pc = "clamp", !.num_images = num_images]
    /\ UNCHANGED <<op_limit, allocator, sync, fences, teardown, recorded, submitting, device, call,
                   present_vars, sched_vars>>

\* Mutant: the attachment count is taken as it is.
BarrierCount_NotClamped(num_images) == num_images

\* barrier_count: num_images, clamped to MAX_BARRIERS.
BarrierCount(num_images) ==
    IF num_images > MAX_BARRIERS THEN MAX_BARRIERS ELSE num_images

\* u32 barrier_count = 0; if (num_images > MAX_BARRIERS) ... else ...
ClampBarrierCount ==
    /\ barrier.pc = "clamp"
    /\ barrier' = [barrier EXCEPT !.pc = "loop", !.i = 0,
                                  !.barrier_count = BarrierCount(barrier.num_images)]
    /\ UNCHANGED <<op_limit, allocator, sync, fences, teardown, recorded, submitting, device, call,
                   present_vars, sched_vars>>

\* for (i = 0; i < barrier_count; ++i) barriers[i] = {...}: one iteration. The
\* old layout is that of a depth/stencil attachment or of a color attachment,
\* by the aspect mask of ranges[i]. A write at an index outside the array is
\* kept in barrier.overrun.
WriteBarrier ==
    /\ barrier.pc = "loop"
    /\ barrier.i < barrier.barrier_count
    /\ \E old_layout \in {"COLOR_ATTACHMENT_OPTIMAL", "DEPTH_STENCIL_ATTACHMENT_OPTIMAL"} :
           barrier' = IF barrier.i < MAX_BARRIERS
                        THEN [barrier EXCEPT !.barriers[barrier.i] = old_layout, !.i = @ + 1]
                        ELSE [barrier EXCEPT !.overrun = TRUE, !.i = @ + 1]
    /\ UNCHANGED <<op_limit, allocator, sync, fences, teardown, recorded, submitting, device, call,
                   present_vars, sched_vars>>

\* cmdbuf.EndRenderPass(), after the loop.
CmdEndRenderPass ==
    /\ barrier.pc = "loop"
    /\ barrier.i >= barrier.barrier_count
    /\ barrier' = [barrier EXCEPT !.pc = "barrier",
                                  !.cmds = Append(@, [cmd |-> "EndRenderPass", count |-> 0])]
    /\ UNCHANGED <<op_limit, allocator, sync, fences, teardown, recorded, submitting, device, call,
                   present_vars, sched_vars>>

\* cmdbuf.PipelineBarrier(..., barrier_count, barriers), the end of the closure.
CmdPipelineBarrier ==
    /\ barrier.pc = "barrier"
    /\ barrier' = [barrier EXCEPT !.pc = "done",
                                  !.cmds = Append(@, [cmd |-> "PipelineBarrier",
                                                      count |-> barrier.barrier_count])]
    /\ UNCHANGED <<op_limit, allocator, sync, fences, teardown, recorded, submitting, device, call,
                   present_vars, sched_vars>>

----------------------------------------------------------------------------
\* Mutant: IsSignaled without the test for a stubbed fence.
FenceIsSignaled_NoStub(f) ==
    IF fences[f].wait_tick = 0 THEN FALSE
    ELSE IsTickCompleted(fences[f].wait_tick)

\* InnerFence::IsSignaled: true for a stubbed fence, false for a fence that
\* was not queued, otherwise Scheduler::IsTickCompleted(wait_tick).
FenceIsSignaled(f) ==
    IF fences[f].is_stubbed THEN TRUE
    ELSE IF fences[f].wait_tick = 0 THEN FALSE
    ELSE IsTickCompleted(fences[f].wait_tick)

\* What InnerFence::Wait found: a stubbed fence, a fence that was not
\* queued, or a tick to wait for.
FenceWaitCase(f) ==
    IF fences[f].is_stubbed THEN "stubbed"
    ELSE IF fences[f].wait_tick = 0 THEN "not_queued"
    ELSE "waited"

\* InnerFence::Wait: returns at once for a stubbed fence and for a fence
\* that was not queued, otherwise Scheduler::WaitUntilTick(wait_tick).
FenceWait(f) ==
    IF FenceWaitCase(f) = "waited" THEN <<WaitStep(fences[f].wait_tick)>> ELSE <<>>

\* FenceManager::CreateFence(is_stubbed): a new InnerFence with wait_tick 0.
CreateFence ==
    \E f \in 1..MaxFences, is_stubbed \in BOOLEAN :
        /\ ~fences[f].created
        /\ \A g \in 1..(f - 1) : fences[g].created
        /\ Begin(<<ReturnStep("CreateFence")>>)
        /\ call' = Called("CreateFence", f)
        /\ fences' = [fences EXCEPT ![f] = [NoFence EXCEPT !.created = TRUE,
                                                          !.is_stubbed = is_stubbed]]
        /\ UNCHANGED <<op_limit, barrier, allocator, sync, teardown, recorded, submitting, device, present_vars,
                       queue_vars, state, next_tick, gpu_vars, mutex, stop_requested,
                       worker_vars, signal_value, alive, rec_count, flushed, assigned>>

\* FenceManager::QueueFence, InnerFence::Queue: wait_tick takes the result of
\* Scheduler::QueueGpuFence, for a stubbed fence too. QueueGpuFence is not
\* among the sources: the tick it returns is the next tick of the timeline,
\* either issued (NextTick) or only read (PeekNextTick).
QueueFence ==
    \E f \in 1..MaxFences, issued \in BOOLEAN :
        /\ fences[f].created
        /\ Begin(<<ReturnStep("QueueFence")>>)
        /\ call' = Called("QueueFence", f)
        /\ fences' = [fences EXCEPT ![f].wait_tick = next_tick,
                                    ![f].queued = @ + 1,
                                    ![f].first_tick = IF fences[f].queued = 0
                                                        THEN next_tick ELSE @]
        /\ next_tick' = IF issued THEN next_tick + 1 ELSE next_tick
        /\ UNCHANGED <<op_limit, barrier, allocator, sync, teardown, recorded, submitting, device, present_vars,
                       queue_vars, state, gpu_vars, mutex, stop_requested,
                       worker_vars, signal_value, alive, rec_count, flushed, assigned>>

\* FenceManager::IsFenceSignaled: InnerFence::IsSignaled of the fence.
IsFenceSignaled ==
    \E f \in 1..MaxFences :
        /\ fences[f].created
        /\ Begin(<<ReturnStep("IsFenceSignaled")>>)
        /\ call' = [Called("IsFenceSignaled", f) EXCEPT
                      !.result = IF FenceIsSignaled(f) THEN "true" ELSE "false"]
        /\ UNCHANGED <<op_limit, barrier, allocator, sync, fences, teardown, recorded, submitting, device,
                       present_vars, queue_vars, state, next_tick, gpu_vars, mutex,
                       stop_requested, worker_vars, signal_value, alive, rec_count,
                       flushed, assigned>>

\* FenceManager::WaitFence: InnerFence::Wait of the fence. (WaitFence below
\* is the fence wait of PresentManager::GetRenderFrame.)
WaitInnerFence ==
    \E f \in 1..MaxFences :
        /\ fences[f].created
        /\ Begin(FenceWait(f) \o <<ReturnStep("WaitFence")>>)
        /\ call' = [Called("WaitFence", f) EXCEPT !.result = FenceWaitCase(f)]
        /\ UNCHANGED <<op_limit, barrier, allocator, sync, fences, teardown, recorded, submitting, device,
                       present_vars, queue_vars, state, next_tick, gpu_vars, mutex,
                       stop_requested, worker_vars, signal_value, alive, rec_count,
                       flushed, assigned>>

\* Mutant: the tick is peeked (GetSubmitTick) instead of taken.
SubmitExecution_PeekTick ==
    /\ At("SubmitExecution")
    /\ state' = InvalidateState
    /\ signal_value' = PeekNextTick
    /\ assigned' = Append(assigned, PeekNextTick)
    /\ todo' = EndPendingOperations
                 \o <<[RecordStep("submit", PeekNextTick) EXCEPT !.sem = Cur.sem], Step("MarkSubmit"),
                      Step("DispatchWork")>>
                 \o Tail(todo)
    /\ UNCHANGED <<op_limit, barrier, allocator, sync, fences, teardown, recorded, submitting, device, call, present_vars, queue_vars, gpu_vars, mutex, stop_requested, worker_vars,
                   alive, nops, rec_count, flushed, last_ret, next_tick>>

\* Mutant: the submission does not end the pending operations.
SubmitExecution_NoEndPending ==
    /\ At("SubmitExecution")
    /\ state' = InvalidateState
    /\ signal_value' = next_tick
    /\ next_tick' = next_tick + 1
    /\ todo' = <<[RecordStep("submit", next_tick) EXCEPT !.sem = Cur.sem], Step("MarkSubmit"),
                 Step("DispatchWork")>>
                 \o Tail(todo)
    /\ assigned' = Append(assigned, next_tick)
    /\ UNCHANGED <<op_limit, barrier, allocator, sync, fences, teardown, recorded, submitting, device, call, present_vars, queue_vars, gpu_vars, mutex, stop_requested, worker_vars,
                   alive, nops, rec_count, flushed, last_ret>>

\* Scheduler::SubmitExecution: ends the pending operations, invalidates the
\* state cache, takes the next tick, records the submission closure carrying
\* it, marks the chunk and dispatches it; the tick is the result.
SubmitExecution ==
    /\ At("SubmitExecution")
    /\ state' = InvalidateState
    /\ signal_value' = next_tick
    /\ next_tick' = next_tick + 1
    /\ todo' = EndPendingOperations
                 \o <<[RecordStep("submit", next_tick) EXCEPT !.sem = Cur.sem], Step("MarkSubmit"),
                      Step("DispatchWork")>>
                 \o Tail(todo)
    /\ assigned' = Append(assigned, next_tick)
    /\ UNCHANGED <<op_limit, barrier, allocator, sync, fences, teardown, recorded, submitting, device, call, present_vars, queue_vars, gpu_vars, mutex, stop_requested, worker_vars,
                   alive, nops, rec_count, flushed, last_ret>>

\* Mutant: a closure that finds the chunk full is lost.
RecordClosure_DropsOnFull ==
    /\ At("Record") \/ At("RecordAgain")
    /\ IF ChunkHasRoom(chunk) \/ At("RecordAgain")
         THEN /\ call' = [call EXCEPT !.begins = IF Cur.kind = "begin" THEN @ + 1 ELSE @]
              /\ chunk' = [chunk EXCEPT
                             !.cmds = Append(@, Cmd(Cur.kind, rec_count + 1, Cur.val, Cur.sem))]
              /\ todo' = Tail(todo)
         ELSE /\ todo' = <<Step("DispatchWork")>> \o Tail(todo)
              /\ UNCHANGED <<call, chunk>>
    /\ rec_count' = rec_count + 1
    /\ recorded' = Append(recorded, Cur.kind)
    /\ UNCHANGED <<op_limit, barrier, allocator, sync, fences, teardown, submitting, device, present_vars, work_queue, chunk_reserve, chunks_made, state, next_tick, gpu_vars,
                   mutex, stop_requested, worker_vars, signal_value, alive, nops,
                   flushed, assigned, last_ret>>

\* Scheduler::Record / RecordWithUploadBuffer: the closure goes into the
\* current chunk; with no room left (CommandChunk::Record returns false) the
\* chunk is dispatched first and the closure goes into the new one.
RecordClosure ==
    /\ At("Record") \/ At("RecordAgain")
    /\ IF ChunkHasRoom(chunk) \/ At("RecordAgain")
         THEN /\ call' = [call EXCEPT !.begins = IF Cur.kind = "begin" THEN @ + 1 ELSE @]
              /\ chunk' = [chunk EXCEPT
                             !.cmds = Append(@, Cmd(Cur.kind, rec_count + 1, Cur.val, Cur.sem))]
              /\ rec_count' = rec_count + 1
              /\ recorded' = Append(recorded, Cur.kind)
              /\ todo' = Tail(todo)
         ELSE /\ todo' = <<Step("DispatchWork"), [Cur EXCEPT !.op = "RecordAgain"]>>
                         \o Tail(todo)
              /\ UNCHANGED <<call, chunk, rec_count, recorded>>
    /\ UNCHANGED <<op_limit, barrier, allocator, sync, fences, teardown, submitting, device, present_vars, work_queue, chunk_reserve, chunks_made, state, next_tick, gpu_vars,
                   mutex, stop_requested, worker_vars, signal_value, alive, nops,
                   flushed, assigned, last_ret>>

\* CommandChunk::MarkSubmit on the current chunk (SubmitExecution).
MarkSubmit ==
    /\ At("MarkSubmit")
    /\ chunk' = [chunk EXCEPT !.submit = TRUE]
    /\ todo' = Tail(todo)
    /\ UNCHANGED <<op_limit, barrier, allocator, sync, fences, teardown, recorded, submitting, device, call, present_vars, work_queue, chunk_reserve, chunks_made, state, next_tick, gpu_vars,
                   mutex, stop_requested, worker_vars, signal_value, alive, nops,
                   rec_count, flushed, assigned, last_ret>>

\* Mutant: the chunk is not handed to the worker.
DispatchWork_NotQueued ==
    /\ At("DispatchWork")
    /\ IF Empty(chunk)
         THEN /\ todo' = Tail(todo)
              /\ UNCHANGED <<chunk, work_queue>>
         ELSE /\ mutex["queue_mutex"] = "free"
              /\ work_queue' = work_queue
              /\ chunk' = NoChunk
              /\ todo' = <<Step("AcquireNewChunk")>> \o Tail(todo)
    /\ UNCHANGED <<op_limit, barrier, allocator, sync, fences, teardown, recorded, submitting, device, call, present_vars, chunk_reserve, chunks_made, state, next_tick, gpu_vars,
                   mutex, stop_requested, worker_vars, signal_value, alive, nops,
                   rec_count, flushed, assigned, last_ret>>

\* Mutant: the chunk is put at the front of the work queue.
DispatchWork_PushFront ==
    /\ At("DispatchWork")
    /\ IF Empty(chunk)
         THEN /\ todo' = Tail(todo)
              /\ UNCHANGED <<chunk, work_queue>>
         ELSE /\ mutex["queue_mutex"] = "free"
              /\ work_queue' = <<chunk>> \o work_queue
              /\ chunk' = NoChunk
              /\ todo' = <<Step("AcquireNewChunk")>> \o Tail(todo)
    /\ UNCHANGED <<op_limit, barrier, allocator, sync, fences, teardown, recorded, submitting, device, call, present_vars, chunk_reserve, chunks_made, state, next_tick, gpu_vars,
                   mutex, stop_requested, worker_vars, signal_value, alive, nops,
                   rec_count, flushed, assigned, last_ret>>

\* Scheduler::DispatchWork: nothing for an empty chunk; otherwise the chunk
\* is pushed on the work queue under queue_mutex, the worker is notified and
\* AcquireNewChunk follows.
DispatchWork ==
    /\ At("DispatchWork")
    /\ IF Empty(chunk)
         THEN /\ todo' = Tail(todo)
              /\ UNCHANGED <<chunk, work_queue>>
         ELSE /\ mutex["queue_mutex"] = "free"
              /\ work_queue' = Append(work_queue, chunk)
              /\ chunk' = NoChunk
              /\ todo' = <<Step("AcquireNewChunk")>> \o Tail(todo)
    /\ UNCHANGED <<op_limit, barrier, allocator, sync, fences, teardown, recorded, submitting, device, call, present_vars, chunk_reserve, chunks_made, state, next_tick, gpu_vars,
                   mutex, stop_requested, worker_vars, signal_value, alive, nops,
                   rec_count, flushed, assigned, last_ret>>

\* Scheduler::AcquireNewChunk: under reserve_mutex, the back of the reserve,
\* or a new chunk when the reserve is empty.
AcquireNewChunk ==
    /\ At("AcquireNewChunk")
    /\ mutex["reserve_mutex"] = "free"
    /\ IF chunk_reserve = <<>>
         THEN /\ chunk' = [id |-> chunks_made + 1, cmds |-> <<>>, submit |-> FALSE]
              /\ chunks_made' = chunks_made + 1
              /\ UNCHANGED chunk_reserve
         ELSE /\ chunk' = chunk_reserve[Len(chunk_reserve)]
              /\ chunk_reserve' = SubSeq(chunk_reserve, 1, Len(chunk_reserve) - 1)
              /\ UNCHANGED chunks_made
    /\ todo' = Tail(todo)
    /\ UNCHANGED <<op_limit, barrier, allocator, sync, fences, teardown, recorded, submitting, device, call, present_vars, work_queue, state, next_tick, gpu_vars,
                   mutex, stop_requested, worker_vars, signal_value, alive, nops,
                   rec_count, flushed, assigned, last_ret>>

\* Scheduler::WaitUntilTick: MasterSemaphore::Wait returns once the timeline
\* value has reached the tick.
WaitUntilTick ==
    /\ At("WaitUntilTick")
    /\ IsSignaled(Cur.val)
    /\ todo' = Tail(todo)
    /\ UNCHANGED <<op_limit, barrier, allocator, sync, fences, teardown, recorded, submitting, device, call, present_vars, queue_vars, state, next_tick, gpu_vars,
                   mutex, stop_requested, worker_vars, signal_value, alive, nops,
                   rec_count, flushed, assigned, last_ret>>

\* Finish: WaitUntilTick(signal_value), the tick SubmitExecution returned.
FinishWait ==
    /\ At("WaitSignalValue")
    /\ todo' = <<WaitStep(signal_value)>> \o Tail(todo)
    /\ UNCHANGED <<op_limit, barrier, allocator, sync, fences, teardown, recorded, submitting, device, call, present_vars, queue_vars, state, next_tick, gpu_vars,
                   mutex, stop_requested, worker_vars, signal_value, alive, nops,
                   rec_count, flushed, assigned, last_ret>>

\* WaitWorker: event_cv.wait(ql, work_queue.empty()) under queue_mutex.
WaitQueueEmpty ==
    /\ At("WaitQueueEmpty")
    /\ mutex["queue_mutex"] = "free"
    /\ work_queue = <<>>
    /\ todo' = Tail(todo)
    /\ UNCHANGED <<op_limit, barrier, allocator, sync, fences, teardown, recorded, submitting, device, call, present_vars, queue_vars, state, next_tick, gpu_vars,
                   mutex, stop_requested, worker_vars, signal_value, alive, nops,
                   rec_count, flushed, assigned, last_ret>>

\* WaitWorker: std::scoped_lock el{execution_mutex}, then
\* WaitUntilTick(GetCompletedTick()) with the lock held until the return.
LockExecution ==
    /\ At("LockExecution")
    /\ mutex["execution_mutex"] = "free"
    /\ mutex' = Lock("execution_mutex", "producer")
    /\ todo' = <<WaitStep(GetCompletedTick), Step("UnlockExecution")>> \o Tail(todo)
    /\ UNCHANGED <<op_limit, barrier, allocator, sync, fences, teardown, recorded, submitting, device, call, present_vars, queue_vars, state, next_tick, gpu_vars,
                   stop_requested, worker_vars, signal_value, alive, nops,
                   rec_count, flushed, assigned, last_ret>>

UnlockExecution ==
    /\ At("UnlockExecution")
    /\ mutex' = Unlock("execution_mutex")
    /\ todo' = Tail(todo)
    /\ UNCHANGED <<op_limit, barrier, allocator, sync, fences, teardown, recorded, submitting, device, call, present_vars, queue_vars, state, next_tick, gpu_vars,
                   stop_requested, worker_vars, signal_value, alive, nops,
                   rec_count, flushed, assigned, last_ret>>

\* The API call returns to the renderer; Flush returns signal_value.
Return ==
    /\ At("Return")
    /\ last_ret' = Cur.kind
    /\ flushed' = IF Cur.kind = "Flush" THEN Append(flushed, signal_value) ELSE flushed
    /\ todo' = Tail(todo)
    /\ UNCHANGED <<op_limit, barrier, allocator, sync, fences, teardown, recorded, submitting, device, call, present_vars, queue_vars, state, next_tick, gpu_vars,
                   mutex, stop_requested, worker_vars, signal_value, alive, nops,
                   rec_count, assigned>>

\* ~Scheduler: worker_thread.join() returns once WorkerThread has returned.
Join ==
    /\ At("Join")
    /\ pc_w = "exit"
    /\ teardown' = Append(teardown, "worker.join")
    /\ todo' = Tail(todo)
    /\ UNCHANGED <<op_limit, barrier, allocator, sync, fences, recorded, submitting, device, call, present_vars, queue_vars, state, next_tick, gpu_vars,
                   mutex, stop_requested, worker_vars, signal_value, alive, nops,
                   rec_count, flushed, assigned, last_ret>>

\* ~Scheduler, after the destructor body: the unique_ptr members destroy the
\* command pool and the master semaphore.
DestroyMembers ==
    /\ At("DestroyMembers")
    /\ alive' = FALSE
    /\ teardown' = teardown \o <<"~command_pool", "~master_semaphore">>
    /\ todo' = Tail(todo)
    /\ UNCHANGED <<op_limit, barrier, allocator, sync, fences, recorded, submitting, device, call, present_vars, queue_vars, state, next_tick, gpu_vars,
                   mutex, stop_requested, worker_vars, signal_value, nops,
                   rec_count, flushed, assigned, last_ret>>

----------------------------------------------------------------------------
\* Scheduler worker thread (Scheduler::WorkerThread)

producer_vars == <<todo, signal_value, alive, nops, rec_count, flushed, assigned, last_ret,
                   state, next_tick>>

\* while (!stop_token.stop_requested())
WorkerLoop ==
    /\ pc_w = "top"
    /\ pc_w' = IF stop_requested THEN "exit" ELSE "wait"
    /\ UNCHANGED <<op_limit, barrier, allocator, sync, fences, teardown, recorded, submitting, device, call, present_vars, queue_vars, gpu_vars, mutex, stop_requested, work, is_submission,
                   cmdbuf_gen, executed, submitted, producer_vars>>

\* Mutant: pops the back of the work queue.
TryPopQueue_Back ==
    IF work_queue = <<>>
      THEN [popped |-> FALSE, work |-> work, work_queue |-> work_queue]
      ELSE [popped |-> TRUE, work |-> work_queue[Len(work_queue)],
            work_queue |-> SubSeq(work_queue, 1, Len(work_queue) - 1)]

\* The TryPopQueue lambda: with a chunk in the work queue, pops its front into
\* `work`; otherwise leaves both as they are.
TryPopQueue ==
    IF work_queue = <<>>
      THEN [popped |-> FALSE, work |-> work, work_queue |-> work_queue]
      ELSE [popped |-> TRUE, work |-> work_queue[1], work_queue |-> Tail(work_queue)]

\* Mutant: the wait is not woken by a stop request.
WorkerWait_IgnoresStop ==
    /\ pc_w = "wait"
    /\ mutex["queue_mutex"] = "free"
    /\ TryPopQueue.popped
    /\ mutex' = Lock("queue_mutex", "worker")
    /\ work' = TryPopQueue.work
    /\ work_queue' = TryPopQueue.work_queue
    /\ pc_w' = "check"
    /\ UNCHANGED <<op_limit, barrier, allocator, sync, fences, teardown, recorded, submitting, device, call, present_vars, chunk, chunk_reserve, chunks_made, gpu_vars, stop_requested,
                   is_submission, cmdbuf_gen, executed, submitted, producer_vars>>

\* std::unique_lock lk{queue_mutex}; CondvarWait(event_cv, lk, stop_token,
\* TryPopQueue): returns with the mutex held once TryPopQueue has popped a
\* chunk or a stop is requested (the predicate is evaluated a last time then).
WorkerWait ==
    /\ pc_w = "wait"
    /\ mutex["queue_mutex"] = "free"
    /\ TryPopQueue.popped \/ stop_requested
    /\ mutex' = Lock("queue_mutex", "worker")
    /\ work' = TryPopQueue.work
    /\ work_queue' = TryPopQueue.work_queue
    /\ pc_w' = "check"
    /\ UNCHANGED <<op_limit, barrier, allocator, sync, fences, teardown, recorded, submitting, device, call, present_vars, chunk, chunk_reserve, chunks_made, gpu_vars, stop_requested,
                   is_submission, cmdbuf_gen, executed, submitted, producer_vars>>

\* if (stop_token.stop_requested()) return;  (lk releases queue_mutex, the
\* popped chunk is destroyed with the thread's locals)
WorkerCheckStop ==
    /\ pc_w = "check"
    /\ IF stop_requested
         THEN /\ pc_w' = "exit"
              /\ mutex' = Unlock("queue_mutex")
              /\ work' = NoChunk
         ELSE /\ pc_w' = "exchange"
              /\ UNCHANGED <<mutex, work>>
    /\ UNCHANGED <<op_limit, barrier, allocator, sync, fences, teardown, recorded, submitting, device, call, present_vars, queue_vars, gpu_vars, stop_requested, is_submission,
                   cmdbuf_gen, executed, submitted, producer_vars>>

\* std::exchange(lk, std::unique_lock{execution_mutex}): execution_mutex is
\* taken first, then lk's old lock on queue_mutex is released.
WorkerExchangeLock ==
    /\ pc_w = "exchange"
    /\ mutex["execution_mutex"] = "free"
    /\ mutex' = [mutex EXCEPT !["execution_mutex"] = "worker", !["queue_mutex"] = "free"]
    /\ pc_w' = "scope_exit"
    /\ UNCHANGED <<op_limit, barrier, allocator, sync, fences, teardown, recorded, submitting, device, call, present_vars, queue_vars, gpu_vars, stop_requested, work, is_submission,
                   cmdbuf_gen, executed, submitted, producer_vars>>

\* What the closing brace of the block that declares lk does to the mutexes:
\* lk, which now owns execution_mutex, is destroyed there.
LockScopeExit == Unlock("execution_mutex")

\* End of the block of lk, then is_submission = work->HasSubmit().
WorkerScopeExit ==
    /\ pc_w = "scope_exit"
    /\ mutex' = LockScopeExit
    /\ is_submission' = HasSubmit(work)
    /\ pc_w' = "execute"
    /\ UNCHANGED <<op_limit, barrier, allocator, sync, fences, teardown, recorded, submitting, device, call, present_vars, queue_vars, gpu_vars, stop_requested, work,
                   cmdbuf_gen, executed, submitted, producer_vars>>

\* Mutant: the native submission is made without submit_mutex.
TakeSubmitMutex_NotTaken(who) == UNCHANGED mutex

\* std::scoped_lock lock{submit_mutex} taken by thread who.
TakeSubmitMutex(who) ==
    /\ mutex["submit_mutex"] = "free"
    /\ mutex' = Lock("submit_mutex", who)

\* The scoped_lock on submit_mutex of thread who goes out of scope.
ReleaseSubmitMutex(who) ==
    mutex' = [mutex EXCEPT !["submit_mutex"] = IF @ = who THEN "free" ELSE @]

\* The submission closure of SubmitExecution on the worker:
\* std::scoped_lock lock{submit_mutex}, before master_semaphore->SubmitQueue.
WorkerLockSubmit ==
    /\ pc_w = "execute"
    /\ work.cmds # <<>>
    /\ work.cmds[1].kind = "submit"
    /\ "worker" \notin submitting
    /\ TakeSubmitMutex("worker")
    /\ submitting' = submitting \cup {"worker"}
    /\ UNCHANGED <<op_limit, barrier, allocator, sync, fences, teardown, recorded, device, call,
                   present_vars, queue_vars, gpu_vars, stop_requested, worker_vars,
                   producer_vars>>

\* MasterSemaphore::SubmitQueue(cmdbuf, upload_cmdbuf, signal_semaphore,
\* wait_semaphore, signal_value): the batch enters the graphics queue; when the
\* GPU completes it the timeline semaphore is signaled with signal_value and
\* signal_semaphore (the render_ready of batch.frame, if any) is signaled.
SubmitQueue(signal_semaphore, tick) ==
    Append(gpu_queue, [kind |-> "render", tick |-> tick, frame |-> signal_semaphore,
                       copied |-> FALSE])

\* CommandChunk::ExecuteAll, one closure: command->Execute(cmdbuf, upload_cmdbuf).
\* The submission closure, submit_mutex taken, calls SubmitQueue and releases
\* the mutex at the end of its scope.
ExecuteCommand ==
    /\ pc_w = "execute"
    /\ work.cmds # <<>>
    /\ LET command == work.cmds[1] IN
        /\ executed' = Append(executed, command.stamp)
        /\ IF command.kind = "submit"
             THEN /\ "worker" \in submitting
                  /\ gpu_queue' = SubmitQueue(command.sem, command.val)
                  /\ submitted' = Append(submitted, command.val)
                  /\ ReleaseSubmitMutex("worker")
                  /\ submitting' = submitting \ {"worker"}
             ELSE UNCHANGED <<gpu_queue, submitted, mutex, submitting>>
        /\ IF command.kind = "present"
             THEN /\ mutex["present_queue_mutex"] = "free"
                  /\ present_queue' = Append(present_queue, command.val)
             ELSE UNCHANGED present_queue
    /\ work' = [work EXCEPT !.cmds = Tail(@)]
    /\ UNCHANGED <<op_limit, barrier, allocator, sync, fences, teardown, recorded, device, call, use_present_thread, image_count, free_queue, present_done, held,
                   rframe, pc_t, pframe, present_stop, copy, faults, recycled,
                   queue_vars, gpu_value, gpu_done, stop_requested, pc_w,
                   is_submission, cmdbuf_gen, producer_vars>>

\* Mutant: fresh command buffers after every chunk.
ExecuteAllDone_AlwaysAllocates ==
    /\ pc_w = "execute"
    /\ work.cmds = <<>>
    /\ work' = [work EXCEPT !.submit = FALSE]
    /\ pc_w' = "allocate"
    /\ UNCHANGED <<op_limit, barrier, allocator, sync, fences, teardown, recorded, submitting, device, call, present_vars, queue_vars, gpu_vars, mutex, stop_requested,
                   is_submission, cmdbuf_gen, executed, submitted, producer_vars>>

\* Mutant: ExecuteAll leaves the submission marker as it is.
ExecuteAllDone_KeepsSubmit ==
    /\ pc_w = "execute"
    /\ work.cmds = <<>>
    /\ pc_w' = IF is_submission THEN "allocate" ELSE "recycle"
    /\ UNCHANGED <<op_limit, barrier, allocator, sync, fences, teardown, recorded, submitting, device, call, present_vars, queue_vars, gpu_vars, mutex, stop_requested,
                   work, is_submission, cmdbuf_gen, executed, submitted, producer_vars>>

\* CommandChunk::ExecuteAll, after the last closure: the chunk state is reset.
ExecuteAllDone ==
    /\ pc_w = "execute"
    /\ work.cmds = <<>>
    /\ work' = [work EXCEPT !.submit = FALSE]
    /\ pc_w' = IF is_submission THEN "allocate" ELSE "recycle"
    /\ UNCHANGED <<op_limit, barrier, allocator, sync, fences, teardown, recorded, submitting, device, call, present_vars, queue_vars, gpu_vars, mutex, stop_requested,
                   is_submission, cmdbuf_gen, executed, submitted, producer_vars>>

\* if (is_submission) AllocateWorkerCommandBuffer();
WorkerAllocate ==
    /\ pc_w = "allocate"
    /\ cmdbuf_gen' = cmdbuf_gen + 1
    /\ pc_w' = "recycle"
    /\ UNCHANGED <<op_limit, barrier, allocator, sync, fences, teardown, recorded, submitting, device, call, present_vars, queue_vars, gpu_vars, mutex, stop_requested, work,
                   is_submission, executed, submitted, producer_vars>>

\* chunk_reserve.emplace_back(std::move(work)) under reserve_mutex.
WorkerRecycle ==
    /\ pc_w = "recycle"
    /\ mutex["reserve_mutex"] = "free"
    /\ chunk_reserve' = Append(chunk_reserve, work)
    /\ work' = NoChunk
    /\ pc_w' = "top"
    /\ UNCHANGED <<op_limit, barrier, allocator, sync, fences, teardown, recorded, submitting, device, call, present_vars, chunk, work_queue, chunks_made, gpu_vars, mutex, stop_requested,
                   is_submission, cmdbuf_gen, executed, submitted, producer_vars>>

----------------------------------------------------------------------------
\* The GPU: completes the batches of the graphics queue in submission order;
\* completing a render batch signals the timeline semaphore with its tick,
\* completing a copy batch signals the present_done fence of its frame.

GpuComplete ==
    /\ gpu_queue # <<>>
    /\ IF gpu_queue[1].kind = "render"
         THEN /\ gpu_value' = gpu_queue[1].tick
              /\ gpu_done' = gpu_done \cup {gpu_queue[1].tick}
              /\ UNCHANGED present_done
         ELSE /\ present_done' = [present_done EXCEPT ![gpu_queue[1].frame] = TRUE]
              /\ UNCHANGED <<gpu_value, gpu_done>>
    /\ gpu_queue' = Tail(gpu_queue)
    /\ UNCHANGED <<op_limit, barrier, allocator, sync, fences, teardown, recorded, submitting, device, call, use_present_thread, image_count, free_queue, present_queue, held,
                   rframe, pc_t, pframe, present_stop, copy, faults, recycled,
                   queue_vars, mutex, stop_requested, worker_vars, producer_vars>>

\* CopyToSwapchainImpl, submit_info: the semaphores the present-copy batch of
\* a frame waits on, each with its wait stage, and the one it signals.
\* image_available is swapchain.CurrentPresentSemaphore(), copy_complete is
\* swapchain.CurrentRenderSemaphore().
CopyWaitSemaphores(frame) ==
    {[semaphore |-> "image_available", frame |-> 0, stage |-> "TRANSFER"],
     [semaphore |-> "render_ready", frame |-> frame, stage |-> "TRANSFER"]}

CopySignalSemaphore == "copy_complete"

\* swapchain.Present(copy_complete_semaphore): what the present request waits on.
PresentWaitSemaphore == "copy_complete"

\* A signal of the frame's render_ready is pending ahead of position k of the
\* graphics queue.
SignalPending(frame, k) ==
    \E j \in 1..(k - 1) : gpu_queue[j].kind = "render" /\ gpu_queue[j].frame = frame

\* The wait of the batch at position k of the graphics queue is over. The
\* presentation engine signals the image-acquire semaphore at a time of its
\* own after the acquisition, which was before the batch was submitted. A
\* render_ready that is unsignaled with no signal pending ahead of the batch
\* was waited on before its signal was submitted, which Vulkan leaves
\* undefined: the batch may run.
WaitOver(wait, k) ==
    \/ wait.semaphore = "image_available"
    \/ /\ wait.semaphore = "render_ready"
       /\ wait.frame \in sync.render_ready \/ ~SignalPending(wait.frame, k)

\* The first present-copy batch of the graphics queue whose copy has not run.
NextCopy ==
    CHOOSE k \in 1..Len(gpu_queue) :
        /\ gpu_queue[k].kind = "copy" /\ ~gpu_queue[k].copied
        /\ \A j \in 1..(k - 1) : gpu_queue[j].kind = "copy" => gpu_queue[j].copied

\* The GPU runs the transfer commands of a present-copy batch once the
\* semaphores it waits on at the transfer stage allow it: the frame's image is
\* copied to the swapchain image as it is then, the waits unsignal their
\* semaphores. sync.transferred keeps, per copy, whether the frame's rendering
\* had completed and the semaphore the batch signals.
GpuTransfer ==
    /\ \E k \in 1..Len(gpu_queue) : gpu_queue[k].kind = "copy" /\ ~gpu_queue[k].copied
    /\ LET k == NextCopy
           frame == gpu_queue[k].frame IN
        /\ \A wait \in CopyWaitSemaphores(frame) :
               wait.stage = "TRANSFER" => WaitOver(wait, k)
        /\ gpu_queue' = [gpu_queue EXCEPT ![k].copied = TRUE]
        /\ sync' = [sync EXCEPT
                      !.render_ready =
                          @ \ {wait.frame : wait \in
                                  {w \in CopyWaitSemaphores(frame) :
                                       w.semaphore = "render_ready"}},
                      !.transferred =
                          Append(@, [frame |-> frame,
                                     rendered |-> frame \in sync.render_ready,
                                     signaled |-> CopySignalSemaphore])]
    /\ UNCHANGED <<op_limit, barrier, allocator, fences, teardown, recorded, submitting, device, call,
                   use_present_thread, image_count, free_queue, present_queue,
                   present_done, held, rframe, pc_t, pframe, present_stop, copy, faults,
                   recycled, queue_vars, gpu_value, gpu_done, mutex, stop_requested,
                   worker_vars, producer_vars>>

\* The GPU completes the first batch of the graphics queue. A render batch
\* signals the timeline semaphore with its tick and its signal semaphore, the
\* render_ready of a frame; a present-copy batch, its copy done, signals
\* copy_complete (sync.transferred has it) and the present_done fence of its
\* frame.
GpuSignal ==
    /\ gpu_queue # <<>>
    /\ IF gpu_queue[1].kind = "render"
         THEN /\ gpu_value' = gpu_queue[1].tick
              /\ gpu_done' = gpu_done \cup {gpu_queue[1].tick}
              /\ sync' = [sync EXCEPT !.render_ready = @ \cup ({gpu_queue[1].frame} \ {0})]
              /\ UNCHANGED present_done
         ELSE /\ gpu_queue[1].copied
              /\ present_done' = [present_done EXCEPT ![gpu_queue[1].frame] = TRUE]
              /\ UNCHANGED <<gpu_value, gpu_done, sync>>
    /\ gpu_queue' = Tail(gpu_queue)
    /\ UNCHANGED <<op_limit, barrier, allocator, fences, teardown, recorded, submitting, device, call,
                   use_present_thread, image_count, free_queue, present_queue, held,
                   rframe, pc_t, pframe, present_stop, copy, faults, recycled,
                   queue_vars, mutex, stop_requested, worker_vars, producer_vars>>

\* The presentation engine displays the image of the next present request once
\* the semaphore the request waits on, the copy_complete of its copy, is
\* signaled.
DisplayImage ==
    /\ sync.displayed < Len(sync.requests)
    /\ sync.displayed < Len(sync.transferred)
    /\ sync.transferred[sync.displayed + 1].signaled = sync.requests[sync.displayed + 1]
    /\ sync' = [sync EXCEPT !.displayed = @ + 1]
    /\ UNCHANGED <<op_limit, barrier, allocator, fences, teardown, recorded, submitting, device, call,
                   present_vars, sched_vars>>

----------------------------------------------------------------------------
\* PresentManager: the renderer's calls

\* The Frames of PresentManager::frames, by index.
FrameIds == DOMAIN present_done

\* ~PresentManager has not begun.
PresentManagerAlive == \A i \in 1..Len(teardown) : teardown[i] # "~PresentManager"

\* CopyToSwapchain(frame) is entered: requires_recreation = false, and the
\* first attempt starts with the image acquire of CopyToSwapchainImpl.
CopyToSwapchain(frame) ==
    [pc |-> "acquire", frame |-> frame, requires_recreation |-> FALSE, log |-> <<>>]

\* PresentManager::GetRenderFrame
GetRenderFrame ==
    /\ PresentManagerAlive
    /\ Begin(<<Step("PopFree"), Step("WaitFence"), ReturnStep("GetRenderFrame")>>)
    /\ call' = Called("GetRenderFrame", 0)
    /\ UNCHANGED <<op_limit, barrier, allocator, sync, fences, teardown, recorded, submitting, device, present_vars, queue_vars, state, next_tick, gpu_vars, mutex,
                   stop_requested, worker_vars, signal_value, alive, rec_count, flushed,
                   assigned>>

\* GetRenderFrame: free_cv.wait until the free queue is not empty, then front
\* and pop, under free_mutex.
PopFree ==
    /\ At("PopFree")
    /\ mutex["free_mutex"] = "free"
    /\ free_queue # <<>>
    /\ rframe' = Head(free_queue)
    /\ free_queue' = Tail(free_queue)
    /\ todo' = Tail(todo)
    /\ UNCHANGED <<op_limit, barrier, allocator, sync, fences, teardown, recorded, submitting, device, call, use_present_thread, image_count, present_queue, present_done, held,
                   pc_t, pframe, present_stop, copy, faults, recycled,
                   queue_vars, state, next_tick, gpu_vars, mutex, stop_requested,
                   worker_vars, signal_value, alive, nops, rec_count, flushed, assigned,
                   last_ret>>

\* GetRenderFrame: frame->present_done.Wait(UINT64_MAX), then Reset(); the
\* frame is the renderer's from here until it is given to Present.
WaitFence ==
    /\ At("WaitFence")
    /\ present_done[rframe]
    /\ present_done' = [present_done EXCEPT ![rframe] = FALSE]
    /\ held' = held \cup {rframe}
    /\ todo' = Tail(todo)
    /\ UNCHANGED <<op_limit, barrier, allocator, sync, fences, teardown, recorded, submitting, device, call, use_present_thread, image_count, free_queue, present_queue, rframe,
                   pc_t, pframe, present_stop, copy, faults, recycled,
                   queue_vars, state, next_tick, gpu_vars, mutex, stop_requested,
                   worker_vars, signal_value, alive, nops, rec_count, flushed, assigned,
                   last_ret>>

\* Mutant: in asynchronous mode Present pushes the frame to the present queue
\* itself.
Present_PushesItself ==
    /\ \E frame \in held :
        /\ held' = held \ {frame}
        /\ call' = Called("Present", frame)
        /\ IF use_present_thread
             THEN /\ Begin(<<ReturnStep("Present")>>)
                  /\ mutex["present_queue_mutex"] = "free"
                  /\ present_queue' = Append(present_queue, frame)
                  /\ UNCHANGED copy
             ELSE /\ Begin(<<[Step("PushFree") EXCEPT !.val = frame], ReturnStep("Present")>>)
                  /\ copy' = CopyToSwapchain(frame)
                  /\ UNCHANGED present_queue
    /\ UNCHANGED <<op_limit, barrier, allocator, sync, fences, teardown, recorded, submitting, device, use_present_thread, image_count, free_queue,
                   present_done, rframe, pc_t, pframe, present_stop, faults, recycled,
                   queue_vars, state, next_tick, gpu_vars, mutex, stop_requested,
                   worker_vars, signal_value, alive, rec_count, flushed, assigned>>

\* PresentManager::Present(frame), with a frame the renderer got from
\* GetRenderFrame. Synchronous mode: CopyToSwapchain on the calling thread,
\* then the frame goes to the free queue. Asynchronous mode: a closure is
\* recorded in the Scheduler that pushes the frame to the present queue.
Present ==
    /\ PresentManagerAlive
    /\ \E frame \in held :
        /\ held' = held \ {frame}
        /\ call' = Called("Present", frame)
        /\ IF use_present_thread
             THEN /\ Begin(<<RecordStep("present", frame), ReturnStep("Present")>>)
                  /\ UNCHANGED copy
             ELSE /\ Begin(<<[Step("PushFree") EXCEPT !.val = frame], ReturnStep("Present")>>)
                  /\ copy' = CopyToSwapchain(frame)
    /\ UNCHANGED <<op_limit, barrier, allocator, sync, fences, teardown, recorded, submitting, device, use_present_thread, image_count, free_queue, present_queue,
                   present_done, rframe, pc_t, pframe, present_stop, faults, recycled,
                   queue_vars, state, next_tick, gpu_vars, mutex, stop_requested,
                   worker_vars, signal_value, alive, rec_count, flushed, assigned>>

\* The renderer's frame: Scheduler::Flush(signal_semaphore) with the
\* render_ready semaphore of the frame it got from GetRenderFrame, so that the
\* frame's rendering signals it.
FlushRenderReady ==
    /\ call.name \in {"GetRenderFrame", "Record"}
    /\ rframe \in held
    /\ Begin(<<[Step("SubmitExecution") EXCEPT !.sem = rframe], ReturnStep("Flush")>>)
    /\ call' = Called("Flush", rframe)
    /\ UNCHANGED <<op_limit, barrier, allocator, sync, fences, teardown, recorded, submitting, device,
                   present_vars, queue_vars, state, next_tick, gpu_vars, mutex,
                   stop_requested, worker_vars, signal_value, alive, rec_count, flushed,
                   assigned>>

\* The renderer's frame: Present(frame) follows Flush(frame->render_ready).
PresentRendered ==
    /\ call.name = "Flush"
    /\ call.arg \in held
    /\ Present
    /\ call'.arg = call.arg

\* Mutant: the synchronous path returns without the push to the free queue.
PushFree_Skipped ==
    /\ At("PushFree")
    /\ copy.pc = "done"
    /\ mutex["free_mutex"] = "free"
    /\ free_queue' = free_queue
    /\ copy' = NoCopy
    /\ recycled' = recycled + 1
    /\ todo' = Tail(todo)
    /\ UNCHANGED <<op_limit, barrier, allocator, sync, fences, teardown, recorded, submitting, device, call, use_present_thread, image_count, present_queue, present_done, held,
                   rframe, pc_t, pframe, present_stop, faults,
                   queue_vars, state, next_tick, gpu_vars, mutex, stop_requested,
                   worker_vars, signal_value, alive, nops, rec_count, flushed, assigned,
                   last_ret>>

\* Present, synchronous mode, after CopyToSwapchain has returned:
\* free_queue.push(frame) under free_mutex.
PushFree ==
    /\ At("PushFree")
    /\ copy.pc = "done"
    /\ mutex["free_mutex"] = "free"
    /\ free_queue' = Append(free_queue, Cur.val)
    /\ copy' = NoCopy
    /\ recycled' = recycled + 1
    /\ todo' = Tail(todo)
    /\ UNCHANGED <<op_limit, barrier, allocator, sync, fences, teardown, recorded, submitting, device, call, use_present_thread, image_count, present_queue, present_done, held,
                   rframe, pc_t, pframe, present_stop, faults,
                   queue_vars, state, next_tick, gpu_vars, mutex, stop_requested,
                   worker_vars, signal_value, alive, nops, rec_count, flushed, assigned,
                   last_ret>>

\* PresentManager::WaitPresent. Synchronous mode: device WaitIdle.
\* Asynchronous mode: wait for the present queue to be empty, then take
\* swapchain_mutex.
WaitPresent ==
    /\ PresentManagerAlive
    /\ Begin(IF use_present_thread
               THEN <<Step("WaitPresentQueue"), Step("LockSwapchain"), ReturnStep("WaitPresent")>>
               ELSE <<Step("WaitIdle"), ReturnStep("WaitPresent")>>)
    /\ call' = Called("WaitPresent", 0)
    /\ UNCHANGED <<op_limit, barrier, allocator, sync, fences, teardown, recorded, submitting, device, present_vars, queue_vars, state, next_tick, gpu_vars, mutex,
                   stop_requested, worker_vars, signal_value, alive, rec_count, flushed,
                   assigned>>

\* PresentManager::~PresentManager: with a present thread, request_stop and
\* join; then device.GetLogical().WaitIdle(), frames.clear() and
\* DestroyCommandPool.
DestroyPresentManager ==
    /\ PresentManagerAlive
    /\ Begin((IF use_present_thread THEN <<Step("JoinPresentThread")>> ELSE <<>>)
               \o <<Step("DestroyWaitIdle"), Step("DestroyFrames"),
                    ReturnStep("DestroyPresentManager")>>)
    /\ present_stop' = use_present_thread
    /\ teardown' = teardown \o (IF use_present_thread
                                   THEN <<"~PresentManager", "present.request_stop">>
                                   ELSE <<"~PresentManager">>)
    /\ call' = Called("DestroyPresentManager", 0)
    /\ UNCHANGED <<op_limit, barrier, allocator, sync, fences, recorded, submitting, device, use_present_thread,
                   image_count, free_queue, present_queue, present_done, held, rframe,
                   pc_t, pframe, copy, faults, recycled,
                   queue_vars, state, next_tick, gpu_vars, mutex, stop_requested,
                   worker_vars, signal_value, alive, rec_count, flushed, assigned>>

\* Mutant: the destructor does not wait for the present thread.
JoinPresentThread_NoWait ==
    /\ At("JoinPresentThread")
    /\ teardown' = Append(teardown, "present.join")
    /\ todo' = Tail(todo)
    /\ UNCHANGED <<op_limit, barrier, allocator, sync, fences, recorded, submitting, device, call, present_vars,
                   queue_vars, state, next_tick, gpu_vars, mutex, stop_requested,
                   worker_vars, signal_value, alive, nops, rec_count, flushed, assigned,
                   last_ret>>

\* ~PresentManager: present_thread.join() returns once PresentThread has
\* returned.
JoinPresentThread ==
    /\ At("JoinPresentThread")
    /\ pc_t = "exit"
    /\ teardown' = Append(teardown, "present.join")
    /\ todo' = Tail(todo)
    /\ UNCHANGED <<op_limit, barrier, allocator, sync, fences, recorded, submitting, device, call, present_vars,
                   queue_vars, state, next_tick, gpu_vars, mutex, stop_requested,
                   worker_vars, signal_value, alive, nops, rec_count, flushed, assigned,
                   last_ret>>

\* ~PresentManager: device.GetLogical().WaitIdle() returns once the GPU has
\* completed every submitted batch.
DestroyWaitIdle ==
    /\ At("DestroyWaitIdle")
    /\ gpu_queue = <<>>
    /\ teardown' = Append(teardown, "WaitIdle")
    /\ todo' = Tail(todo)
    /\ UNCHANGED <<op_limit, barrier, allocator, sync, fences, recorded, submitting, device, call, present_vars,
                   queue_vars, state, next_tick, gpu_vars, mutex, stop_requested,
                   worker_vars, signal_value, alive, nops, rec_count, flushed, assigned,
                   last_ret>>

\* ~PresentManager: frames.clear(), then DestroyCommandPool(*cmdpool).
DestroyFrames ==
    /\ At("DestroyFrames")
    /\ teardown' = teardown \o <<"frames.clear", "DestroyCommandPool">>
    /\ todo' = Tail(todo)
    /\ UNCHANGED <<op_limit, barrier, allocator, sync, fences, recorded, submitting, device, call, present_vars,
                   queue_vars, state, next_tick, gpu_vars, mutex, stop_requested,
                   worker_vars, signal_value, alive, nops, rec_count, flushed, assigned,
                   last_ret>>

\* WaitPresent, synchronous mode: device.GetLogical().WaitIdle() returns once
\* the GPU has completed every submitted batch.
WaitIdle ==
    /\ At("WaitIdle")
    /\ gpu_queue = <<>>
    /\ todo' = Tail(todo)
    /\ UNCHANGED <<op_limit, barrier, allocator, sync, fences, teardown, recorded, submitting, device, call, present_vars, queue_vars, state, next_tick, gpu_vars, mutex,
                   stop_requested, worker_vars, signal_value, alive, nops, rec_count,
                   flushed, assigned, last_ret>>

\* Mutant: WaitPresent takes swapchain_mutex first and waits for the present
\* queue with it.
WaitPresentQueue_HoldsSwapchain ==
    /\ At("WaitPresentQueue")
    /\ \/ /\ mutex["swapchain_mutex"] = "free"
          /\ mutex' = Lock("swapchain_mutex", "producer")
          /\ UNCHANGED todo
       \/ /\ mutex["swapchain_mutex"] = "producer"
          /\ mutex["present_queue_mutex"] = "free"
          /\ present_queue = <<>>
          /\ mutex' = Unlock("swapchain_mutex")
          /\ todo' = Tail(todo)
    /\ UNCHANGED <<op_limit, barrier, allocator, sync, fences, teardown, recorded, submitting, device, call, present_vars, queue_vars, state, next_tick, gpu_vars,
                   stop_requested, worker_vars, signal_value, alive, nops, rec_count,
                   flushed, assigned, last_ret>>

\* WaitPresent: frame_cv.wait under queue_mutex until present_queue.empty().
WaitPresentQueue ==
    /\ At("WaitPresentQueue")
    /\ mutex["present_queue_mutex"] = "free"
    /\ present_queue = <<>>
    /\ todo' = Tail(todo)
    /\ UNCHANGED <<op_limit, barrier, allocator, sync, fences, teardown, recorded, submitting, device, call, present_vars, queue_vars, state, next_tick, gpu_vars, mutex,
                   stop_requested, worker_vars, signal_value, alive, nops, rec_count,
                   flushed, assigned, last_ret>>

\* WaitPresent: std::scoped_lock swapchain_lock{swapchain_mutex} as the last
\* statement; the mutex is taken and released again as the function ends.
LockSwapchain ==
    /\ At("LockSwapchain")
    /\ mutex["swapchain_mutex"] = "free"
    /\ todo' = Tail(todo)
    /\ UNCHANGED <<op_limit, barrier, allocator, sync, fences, teardown, recorded, submitting, device, call, present_vars, queue_vars, state, next_tick, gpu_vars, mutex,
                   stop_requested, worker_vars, signal_value, alive, nops, rec_count,
                   flushed, assigned, last_ret>>

----------------------------------------------------------------------------
\* PresentManager::PresentThread (asynchronous mode)

\* Mutant: the frame is read with front() and left in the present queue.
PresentThreadPop_NoPop ==
    /\ pc_t = "top"
    /\ mutex["present_queue_mutex"] = "free"
    /\ present_queue # <<>> \/ present_stop
    /\ IF present_stop
         THEN /\ pc_t' = "exit"
              /\ UNCHANGED <<pframe, present_queue, mutex>>
         ELSE /\ pframe' = Head(present_queue)
              /\ present_queue' = present_queue
              /\ mutex' = Lock("present_queue_mutex", "present")
              /\ pc_t' = "exchange"
    /\ UNCHANGED <<op_limit, barrier, allocator, sync, fences, teardown, recorded, submitting, device, call, use_present_thread, image_count, free_queue, present_done, held,
                   rframe, present_stop, copy, faults, recycled,
                   queue_vars, gpu_vars, stop_requested, worker_vars, producer_vars>>

\* PresentThread: CondvarWait under queue_mutex until the present queue is
\* not empty or stop is requested; return on stop; otherwise front and pop.
PresentThreadPop ==
    /\ pc_t = "top"
    /\ mutex["present_queue_mutex"] = "free"
    /\ present_queue # <<>> \/ present_stop
    /\ IF present_stop
         THEN /\ pc_t' = "exit"
              /\ UNCHANGED <<pframe, present_queue, mutex>>
         ELSE /\ pframe' = Head(present_queue)
              /\ present_queue' = Tail(present_queue)
              /\ mutex' = Lock("present_queue_mutex", "present")
              /\ pc_t' = "exchange"
    /\ UNCHANGED <<op_limit, barrier, allocator, sync, fences, teardown, recorded, submitting, device, call, use_present_thread, image_count, free_queue, present_done, held,
                   rframe, present_stop, copy, faults, recycled,
                   queue_vars, gpu_vars, stop_requested, worker_vars, producer_vars>>

\* std::exchange(lock, std::unique_lock{swapchain_mutex}): swapchain_mutex is
\* taken while queue_mutex is held, then queue_mutex is released.
PresentThreadExchangeLock ==
    /\ pc_t = "exchange"
    /\ mutex["swapchain_mutex"] = "free"
    /\ mutex' = [mutex EXCEPT !["swapchain_mutex"] = "present",
                              !["present_queue_mutex"] = "free"]
    /\ pc_t' = "scope_exit"
    /\ UNCHANGED <<op_limit, barrier, allocator, sync, fences, teardown, recorded, submitting, device, call, use_present_thread, image_count, free_queue, present_queue,
                   present_done, held, rframe, pframe, present_stop, copy, faults, recycled,
                   queue_vars, gpu_vars, stop_requested, worker_vars, producer_vars>>

\* The block that declares lock ends: the lock, which now owns
\* swapchain_mutex, is destroyed; then CopyToSwapchain(frame) is called.
PresentThreadScopeExit ==
    /\ pc_t = "scope_exit"
    /\ mutex' = Unlock("swapchain_mutex")
    /\ copy' = CopyToSwapchain(pframe)
    /\ pc_t' = "copy"
    /\ UNCHANGED <<op_limit, barrier, allocator, sync, fences, teardown, recorded, submitting, device, call, use_present_thread, image_count, free_queue, present_queue,
                   present_done, held, rframe, pframe, present_stop, faults, recycled,
                   queue_vars, gpu_vars, stop_requested, worker_vars, producer_vars>>

\* Mutant: the present thread keeps the frame it has presented.
PresentThreadFree_KeepsFrame ==
    /\ pc_t = "copy"
    /\ copy.pc = "done"
    /\ mutex["free_mutex"] = "free"
    /\ free_queue' = free_queue
    /\ copy' = NoCopy
    /\ recycled' = recycled + 1
    /\ pc_t' = "top"
    /\ UNCHANGED <<op_limit, barrier, allocator, sync, fences, teardown, recorded, submitting, device, call, use_present_thread, image_count, present_queue, present_done, held,
                   rframe, pframe, present_stop, faults,
                   queue_vars, gpu_vars, mutex, stop_requested, worker_vars, producer_vars>>

\* PresentThread, after CopyToSwapchain has returned: free_queue.push(frame)
\* under free_mutex.
PresentThreadFree ==
    /\ pc_t = "copy"
    /\ copy.pc = "done"
    /\ mutex["free_mutex"] = "free"
    /\ free_queue' = Append(free_queue, pframe)
    /\ copy' = NoCopy
    /\ recycled' = recycled + 1
    /\ pc_t' = "top"
    /\ UNCHANGED <<op_limit, barrier, allocator, sync, fences, teardown, recorded, submitting, device, call, use_present_thread, image_count, present_queue, present_done, held,
                   rframe, pframe, present_stop, faults,
                   queue_vars, gpu_vars, mutex, stop_requested, worker_vars, producer_vars>>

----------------------------------------------------------------------------
\* PresentManager::CopyToSwapchain, on the renderer's thread in synchronous
\* mode and on the present thread in asynchronous mode

\* Mutant: the catch tries again at once.
Catch_TryAgain(condition) ==
    [copy EXCEPT !.pc = "acquire", !.log = Append(@, condition)]

\* The catch of CopyToSwapchain for a condition raised by the attempt:
\* VK_ERROR_SURFACE_LOST_KHR sets requires_recreation, so that the loop
\* creates the surface and recreates the swapchain before the next attempt;
\* VK_ERROR_OUT_OF_DATE_KHR / VK_SUBOPTIMAL_KHR recreates the swapchain.
\* copy.log keeps what the call has met and done so far.
Catch(condition) ==
    [copy EXCEPT !.pc = "recreate",
                 !.requires_recreation = (condition = "surface_lost"),
                 !.log = Append(@, condition)]

\* The conditions an attempt can raise and CopyToSwapchain recovers from.
Recoverable == {"out_of_date", "surface_lost"}

\* CopyToSwapchainImpl: swapchain.AcquireNextImage() returns false, returns
\* true (the swapchain is recreated and the image acquired again), or raises
\* a condition.
AcquireNextImage ==
    /\ copy.pc = "acquire"
    /\ \/ /\ copy' = [copy EXCEPT !.pc = "submit"]
          /\ UNCHANGED faults
       \/ /\ faults < MaxFaults
          /\ faults' = faults + 1
          /\ \/ copy' = [copy EXCEPT !.pc = "recreate", !.log = Append(@, "outdated")]
             \/ \E condition \in Recoverable : copy' = Catch(condition)
    /\ UNCHANGED <<op_limit, barrier, allocator, sync, fences, teardown, recorded, submitting, device, call, use_present_thread, image_count, free_queue, present_queue,
                   present_done, held, rframe, pc_t, pframe, present_stop, recycled,
                   queue_vars, gpu_vars, mutex, stop_requested, worker_vars, producer_vars>>

\* The thread CopyToSwapchain runs on: the present thread in asynchronous
\* mode, the renderer's in synchronous mode.
CopyThread == IF use_present_thread THEN "present" ELSE "producer"

\* CopyToSwapchainImpl: std::scoped_lock submit_lock{scheduler.submit_mutex},
\* before the queue submission.
CopyLockSubmit ==
    /\ copy.pc = "submit"
    /\ CopyThread \notin submitting
    /\ TakeSubmitMutex(CopyThread)
    /\ submitting' = submitting \cup {CopyThread}
    /\ UNCHANGED <<op_limit, barrier, allocator, sync, fences, teardown, recorded, device, call,
                   present_vars, queue_vars, gpu_vars, stop_requested, worker_vars,
                   producer_vars>>

\* CopyToSwapchainImpl: Submit(submit_info, *frame->present_done) under
\* scheduler.submit_mutex, released at the end of the scope. The fence of a first submission is unsignaled
\* (GetRenderFrame reset it). Submitting with a fence that is signaled is
\* undefined in Vulkan: the fence either stays signaled or is taken as
\* pending.
QueueSubmit ==
    /\ copy.pc = "submit"
    /\ CopyThread \in submitting
    /\ ReleaseSubmitMutex(CopyThread)
    /\ submitting' = submitting \ {CopyThread}
    /\ gpu_queue' = Append(gpu_queue, [kind |-> "copy", tick |-> 0, frame |-> copy.frame,
                                       copied |-> FALSE])
    /\ IF present_done[copy.frame]
         THEN \E signaled \in BOOLEAN :
                 present_done' = [present_done EXCEPT ![copy.frame] = signaled]
         ELSE UNCHANGED present_done
    /\ copy' = [copy EXCEPT !.pc = "present", !.log = Append(@, "Submit")]
    /\ UNCHANGED <<op_limit, barrier, allocator, sync, fences, teardown, recorded, device, call, use_present_thread, image_count, free_queue, present_queue, held,
                   rframe, pc_t, pframe, present_stop, faults, recycled,
                   queue_vars, gpu_value, gpu_done, stop_requested, worker_vars,
                   producer_vars>>

\* CopyToSwapchainImpl: swapchain.Present(copy_complete_semaphore) succeeds and
\* CopyToSwapchain returns, or raises VK_ERROR_OUT_OF_DATE_KHR /
\* VK_SUBOPTIMAL_KHR (the catch recreates the swapchain and the loop tries
\* again) or VK_ERROR_SURFACE_LOST_KHR (requires_recreation is set and the
\* loop recreates surface and swapchain before it tries again).
SwapchainPresent ==
    /\ copy.pc = "present"
    /\ \/ /\ copy' = [copy EXCEPT !.pc = "done", !.log = Append(@, "Present")]
          /\ sync' = [sync EXCEPT !.requests = Append(@, PresentWaitSemaphore)]
          /\ UNCHANGED faults
       \/ /\ faults < MaxFaults
          /\ faults' = faults + 1
          /\ \E condition \in Recoverable : copy' = Catch(condition)
          /\ UNCHANGED sync
    /\ UNCHANGED <<op_limit, barrier, allocator, fences, teardown, recorded, submitting, device, call, use_present_thread, image_count, free_queue, present_queue,
                   present_done, held, rframe, pc_t, pframe, present_stop, recycled,
                   queue_vars, gpu_vars, mutex, stop_requested, worker_vars, producer_vars>>

\* Mutant: the surface is not created again after it was lost.
RecreateSwapchain_KeepsSurface ==
    /\ copy.pc = "recreate"
    /\ gpu_queue = <<>>
    /\ \E swapchain_images \in 1..MaxSwapchainImages :
          image_count' = SetImageCount(swapchain_images)
    /\ copy' = [copy EXCEPT !.pc = "acquire", !.requires_recreation = FALSE,
                            !.log = Append(@, "RecreateSwapchain")]
    /\ UNCHANGED <<op_limit, barrier, allocator, sync, fences, teardown, recorded, submitting, device, call, use_present_thread, free_queue, present_queue,
                   present_done, held, rframe, pc_t, pframe, present_stop, faults, recycled,
                   queue_vars, gpu_vars, mutex, stop_requested, worker_vars, producer_vars>>

\* PresentManager::RecreateSwapchain (after CreateSurface when
\* requires_recreation): device WaitIdle, swapchain.Create, SetImageCount;
\* the frames vector is left as it is. The next attempt starts at the acquire.
RecreateSwapchain ==
    /\ copy.pc = "recreate"
    /\ gpu_queue = <<>>
    /\ \E swapchain_images \in 1..MaxSwapchainImages :
          image_count' = SetImageCount(swapchain_images)
    /\ copy' = [copy EXCEPT !.pc = "acquire", !.requires_recreation = FALSE,
                            !.log = @ \o (IF copy.requires_recreation
                                            THEN <<"CreateSurface", "RecreateSwapchain">>
                                            ELSE <<"RecreateSwapchain">>)]
    /\ UNCHANGED <<op_limit, barrier, allocator, sync, fences, teardown, recorded, submitting, device, call, use_present_thread, free_queue, present_queue,
                   present_done, held, rframe, pc_t, pframe, present_stop, faults, recycled,
                   queue_vars, gpu_vars, mutex, stop_requested, worker_vars, producer_vars>>

----------------------------------------------------------------------------
\* Device loss

\* Device::ReportLoss
ReportLoss == [device EXCEPT !.reported = @ + 1]

\* Mutant: the catch takes a lost device for a condition to recover from.
CopyDeviceLost_Retried ==
    /\ copy.pc \in {"acquire", "submit", "present"}
    /\ copy.pc = "submit" => CopyThread \in submitting
    /\ ReleaseSubmitMutex(CopyThread)
    /\ submitting' = submitting \ {CopyThread}
    /\ faults < MaxFaults
    /\ faults' = faults + 1
    /\ device' = [device EXCEPT !.lost = @ + 1]
    /\ copy' = [copy EXCEPT !.pc = "recreate", !.log = Append(@, "device_lost")]
    /\ UNCHANGED <<op_limit, barrier, allocator, sync, fences, teardown, recorded, call, use_present_thread, image_count, free_queue, present_queue,
                   present_done, held, rframe, pc_t, pframe, present_stop, recycled,
                   queue_vars, gpu_vars, stop_requested, worker_vars, producer_vars>>

\* CopyToSwapchain: the attempt (image acquire, queue submit under
\* submit_mutex, or present) fails with VK_ERROR_DEVICE_LOST; the catch calls
\* device.ReportLoss() and rethrows, which ends the loop.
CopyDeviceLost ==
    /\ copy.pc \in {"acquire", "submit", "present"}
    /\ copy.pc = "submit" => CopyThread \in submitting
    /\ ReleaseSubmitMutex(CopyThread)
    /\ submitting' = submitting \ {CopyThread}
    /\ faults < MaxFaults
    /\ faults' = faults + 1
    /\ device' = [ReportLoss EXCEPT !.lost = @ + 1, !.thrown = @ + 1]
    /\ copy' = [copy EXCEPT !.pc = "escaped", !.log = @ \o <<"device_lost", "ReportLoss">>]
    /\ UNCHANGED <<op_limit, barrier, allocator, sync, fences, teardown, recorded, call, use_present_thread, image_count, free_queue, present_queue,
                   present_done, held, rframe, pc_t, pframe, present_stop, recycled,
                   queue_vars, gpu_vars, stop_requested, worker_vars, producer_vars>>

\* Present, synchronous mode: the exception leaves CopyToSwapchain and
\* Present; the push to the free queue is not reached.
PresentThrows ==
    /\ At("PushFree")
    /\ copy.pc = "escaped"
    /\ copy' = NoCopy
    /\ call' = [call EXCEPT !.result = "device_lost"]
    /\ last_ret' = "Present"
    /\ todo' = <<>>
    /\ UNCHANGED <<op_limit, barrier, allocator, sync, fences, teardown, recorded, submitting, device, use_present_thread, image_count, free_queue, present_queue,
                   present_done, held, rframe, pc_t, pframe, present_stop, faults, recycled,
                   queue_vars, state, next_tick, gpu_vars, mutex, stop_requested,
                   worker_vars, signal_value, alive, nops, rec_count, flushed, assigned>>

\* PresentThread: the exception leaves CopyToSwapchain and the thread
\* function, which terminates the process.
PresentThreadThrows ==
    /\ pc_t = "copy"
    /\ copy.pc = "escaped"
    /\ pc_t' = "terminated"
    /\ UNCHANGED <<op_limit, barrier, allocator, sync, fences, teardown, recorded, submitting, device, call, use_present_thread, image_count, free_queue,
                   present_queue, present_done, held, rframe, pframe, present_stop, copy,
                   faults, recycled,
                   queue_vars, gpu_vars, mutex, stop_requested, worker_vars, producer_vars>>

\* The submission closure on the worker: MasterSemaphore::SubmitQueue returns
\* VK_ERROR_DEVICE_LOST; the closure calls device.ReportLoss() and throws.
\* The exception leaves ExecuteAll and WorkerThread, which terminates the
\* process.
SubmitDeviceLost ==
    /\ pc_w = "execute"
    /\ work.cmds # <<>>
    /\ work.cmds[1].kind = "submit"
    /\ "worker" \in submitting
    /\ ReleaseSubmitMutex("worker")
    /\ submitting' = submitting \ {"worker"}
    /\ faults < MaxFaults
    /\ faults' = faults + 1
    /\ device' = [ReportLoss EXCEPT !.lost = @ + 1, !.thrown = @ + 1]
    /\ pc_w' = "terminated"
    /\ UNCHANGED <<op_limit, barrier, allocator, sync, fences, teardown, recorded, call, use_present_thread, image_count, free_queue, present_queue,
                   present_done, held, rframe, pc_t, pframe, present_stop, copy, recycled,
                   queue_vars, gpu_vars, stop_requested, work, is_submission,
                   cmdbuf_gen, executed, submitted, producer_vars>>

\* An exception has left a thread function.
Terminated == pc_w = "terminated" \/ pc_t = "terminated"

----------------------------------------------------------------------------

Next ==
    \/ Record \/ Flush \/ Finish \/ WaitWorker \/ Destroy
    \/ SubmitExecution \/ RecordClosure \/ MarkSubmit \/ DispatchWork
    \/ AcquireNewChunk \/ WaitUntilTick \/ FinishWait \/ WaitQueueEmpty
    \/ LockExecution \/ UnlockExecution \/ Return \/ Join \/ DestroyMembers
    \/ WorkerLoop \/ WorkerWait \/ WorkerCheckStop \/ WorkerExchangeLock
    \/ WorkerScopeExit \/ WorkerLockSubmit \/ ExecuteCommand \/ ExecuteAllDone \/ WorkerAllocate
    \/ WorkerRecycle
    \/ GpuComplete

Spec == Init /\ [][Next]_vars

\* The state cache: the renderer requests render passes and pipelines,
\* flushes and finishes; the worker and the GPU run alongside.
StateNext ==
    \/ RequestRenderpass \/ RequestOutsideRenderPassOperationContext
    \/ UpdateGraphicsPipeline \/ Flush \/ Finish
    \/ SubmitExecution \/ RecordClosure \/ MarkSubmit \/ DispatchWork
    \/ AcquireNewChunk \/ FinishWait \/ WaitUntilTick \/ Return
    \/ WorkerLoop \/ WorkerWait \/ WorkerCheckStop \/ WorkerExchangeLock
    \/ WorkerScopeExit \/ WorkerLockSubmit \/ ExecuteCommand \/ ExecuteAllDone \/ WorkerAllocate
    \/ WorkerRecycle
    \/ GpuComplete

StateSpec == Init /\ [][StateNext]_vars

\* The steps of the renderer inside a Scheduler call it has begun.
ProducerStep ==
    \/ SubmitExecution \/ RecordClosure \/ MarkSubmit \/ DispatchWork
    \/ AcquireNewChunk \/ Return

\* The steps of Scheduler::WorkerThread.
WorkerStep ==
    \/ WorkerLoop \/ WorkerWait \/ WorkerCheckStop \/ WorkerExchangeLock
    \/ WorkerScopeExit \/ WorkerLockSubmit \/ ExecuteCommand \/ ExecuteAllDone \/ WorkerAllocate
    \/ WorkerRecycle

\* The renderer records and flushes; the worker and the GPU run alongside.
FlushNext ==
    \/ Record \/ Flush
    \/ SubmitExecution \/ RecordClosure \/ MarkSubmit \/ DispatchWork
    \/ AcquireNewChunk \/ Return
    \/ WorkerLoop \/ WorkerWait \/ WorkerCheckStop \/ WorkerExchangeLock
    \/ WorkerScopeExit \/ WorkerLockSubmit \/ ExecuteCommand \/ ExecuteAllDone \/ WorkerAllocate
    \/ WorkerRecycle
    \/ GpuComplete

\* Recording and flushing with threads that keep running: a call the renderer
\* has begun goes on, the worker thread is scheduled fairly and the GPU
\* completes every batch it was given. Whether the renderer begins another
\* call is left open.
FairSpec ==
    /\ Init /\ [][FlushNext]_vars
    /\ WF_vars(ProducerStep) /\ WF_vars(WorkerStep) /\ WF_vars(GpuComplete)

\* The rescaling state: the renderer updates it and flushes; the worker and
\* the GPU run alongside.
RescaleNext ==
    \/ UpdateRescaling \/ Flush
    \/ SubmitExecution \/ RecordClosure \/ MarkSubmit \/ DispatchWork
    \/ AcquireNewChunk \/ Return
    \/ WorkerLoop \/ WorkerWait \/ WorkerCheckStop \/ WorkerExchangeLock
    \/ WorkerScopeExit \/ WorkerLockSubmit \/ ExecuteCommand \/ ExecuteAllDone
    \/ WorkerAllocate \/ WorkerRecycle
    \/ GpuComplete

RescaleSpec == Init /\ [][RescaleNext]_vars

\* The closure of EndRenderPass, for every attachment count.
BarrierNext ==
    \/ EndRenderPassClosure \/ ClampBarrierCount \/ WriteBarrier
    \/ CmdEndRenderPass \/ CmdPipelineBarrier

BarrierSpec == Init /\ [][BarrierNext]_vars

\* A MemoryAllocator is made for a device and buffers are created.
AllocatorNext == MemoryAllocatorCtor \/ CreateBuffer

AllocatorSpec == Init /\ [][AllocatorNext]_vars

\* The fences: the renderer creates, queues, queries and waits on fences and
\* flushes; the worker and the GPU run alongside.
FenceNext ==
    \/ CreateFence \/ QueueFence \/ IsFenceSignaled \/ WaitInnerFence \/ Flush
    \/ SubmitExecution \/ RecordClosure \/ MarkSubmit \/ DispatchWork
    \/ AcquireNewChunk \/ WaitUntilTick \/ Return
    \/ WorkerLoop \/ WorkerWait \/ WorkerCheckStop \/ WorkerExchangeLock
    \/ WorkerScopeExit \/ WorkerLockSubmit \/ ExecuteCommand \/ ExecuteAllDone \/ WorkerAllocate
    \/ WorkerRecycle
    \/ GpuComplete

FenceSpec == Init /\ [][FenceNext]_vars

\* The presentation loop: the renderer gets frames, flushes and presents; the
\* Scheduler worker, the present thread and the GPU run alongside.
PresentNext ==
    \/ GetRenderFrame \/ Present \/ Flush \/ WaitPresent
    \/ PopFree \/ WaitFence \/ PushFree
    \/ WaitIdle \/ WaitPresentQueue \/ LockSwapchain
    \/ SubmitExecution \/ RecordClosure \/ MarkSubmit \/ DispatchWork
    \/ AcquireNewChunk \/ Return
    \/ WorkerLoop \/ WorkerWait \/ WorkerCheckStop \/ WorkerExchangeLock
    \/ WorkerScopeExit \/ WorkerLockSubmit \/ ExecuteCommand \/ ExecuteAllDone \/ WorkerAllocate
    \/ WorkerRecycle
    \/ PresentThreadPop \/ PresentThreadExchangeLock \/ PresentThreadScopeExit
    \/ PresentThreadFree
    \/ AcquireNextImage \/ CopyLockSubmit \/ QueueSubmit \/ SwapchainPresent \/ RecreateSwapchain
    \/ GpuComplete

PresentSpec == PresentInit /\ [][PresentNext]_vars

\* The steps of PresentManager::PresentThread, CopyToSwapchain included.
PresentThreadStep ==
    \/ PresentThreadPop \/ PresentThreadExchangeLock \/ PresentThreadScopeExit
    \/ PresentThreadFree
    \/ AcquireNextImage \/ CopyLockSubmit \/ QueueSubmit \/ SwapchainPresent

\* The presentation loop on a surface that raises no condition: the swapchain
\* is not recreated in these runs.
TeardownInit ==
    /\ SchedulerInit
    /\ op_limit = MaxFrameOps
    /\ \E async \in BOOLEAN :
        /\ use_present_thread = async
        /\ image_count = SetImageCount(MaxSwapchainImages)
        /\ free_queue = [i \in 1..SetImageCount(MaxSwapchainImages) |-> i]
        /\ present_queue = <<>>
        /\ present_done = [f \in 1..SetImageCount(MaxSwapchainImages) |-> TRUE]
        /\ held = {}
        /\ rframe = 0
        /\ pc_t = IF async THEN "top" ELSE "none"
        /\ pframe = 0
        /\ present_stop = FALSE
        /\ copy = NoCopy
        /\ faults = MaxFaults
        /\ recycled = 0
        /\ sync = NoSync

\* The presentation loop and its end: the renderer gets frames, presents
\* them and flushes, then destroys the PresentManager and the Scheduler.
TeardownNext ==
    \/ GetRenderFrame \/ Present \/ Flush
    \/ DestroyPresentManager \/ Destroy
    \/ PopFree \/ WaitFence \/ PushFree
    \/ SubmitExecution \/ RecordClosure \/ MarkSubmit \/ DispatchWork
    \/ AcquireNewChunk \/ Return
    \/ JoinPresentThread \/ DestroyWaitIdle \/ DestroyFrames
    \/ Join \/ DestroyMembers
    \/ WorkerLoop \/ WorkerWait \/ WorkerCheckStop \/ WorkerExchangeLock
    \/ WorkerScopeExit \/ WorkerLockSubmit \/ ExecuteCommand \/ ExecuteAllDone \/ WorkerAllocate
    \/ WorkerRecycle
    \/ PresentThreadPop \/ PresentThreadExchangeLock \/ PresentThreadScopeExit
    \/ PresentThreadFree
    \/ AcquireNextImage \/ CopyLockSubmit \/ QueueSubmit \/ SwapchainPresent
    \/ GpuComplete

\* The steps of the renderer inside a call or a destructor it has begun.
RendererStep ==
    \/ PopFree \/ WaitFence \/ PushFree
    \/ SubmitExecution \/ RecordClosure \/ MarkSubmit \/ DispatchWork
    \/ AcquireNewChunk \/ Return
    \/ JoinPresentThread \/ DestroyWaitIdle \/ DestroyFrames
    \/ Join \/ DestroyMembers

\* The end of the presentation loop with threads that keep running: the
\* renderer goes on with what it has begun, the worker and the present thread
\* are scheduled fairly and the GPU completes every batch it was given.
TeardownSpec ==
    /\ TeardownInit /\ [][TeardownNext]_vars
    /\ WF_vars(RendererStep) /\ WF_vars(WorkerStep) /\ WF_vars(PresentThreadStep)
    /\ WF_vars(GpuComplete)

\* The renderer's frames with the GPU's semaphores: the renderer gets a frame,
\* flushes with the frame's render_ready semaphore and presents the frame, and
\* flushes what it recorded since; the
\* GPU runs the copies as their semaphores allow and signals in submission
\* order, the presentation engine displays.
RenderNext ==
    \/ GetRenderFrame \/ FlushRenderReady \/ PresentRendered \/ Flush
    \/ PopFree \/ WaitFence \/ PushFree
    \/ SubmitExecution \/ RecordClosure \/ MarkSubmit \/ DispatchWork
    \/ AcquireNewChunk \/ Return
    \/ WorkerLoop \/ WorkerWait \/ WorkerCheckStop \/ WorkerExchangeLock
    \/ WorkerScopeExit \/ WorkerLockSubmit \/ ExecuteCommand \/ ExecuteAllDone \/ WorkerAllocate
    \/ WorkerRecycle
    \/ PresentThreadPop \/ PresentThreadExchangeLock \/ PresentThreadScopeExit
    \/ PresentThreadFree
    \/ AcquireNextImage \/ CopyLockSubmit \/ QueueSubmit \/ SwapchainPresent
    \/ GpuTransfer \/ GpuSignal \/ DisplayImage

RenderSpec == TeardownInit /\ [][RenderNext]_vars

\* The steps of the renderer inside a PresentManager or Scheduler call it has
\* begun.
RenderCallStep ==
    \/ PopFree \/ WaitFence \/ PushFree
    \/ SubmitExecution \/ RecordClosure \/ MarkSubmit \/ DispatchWork
    \/ AcquireNewChunk \/ Return

\* The renderer's frames with threads that keep running and no presentation
\* error: a call the renderer has begun goes on, the worker and the present
\* thread are scheduled fairly, the GPU and the presentation engine do what
\* they were given. Whether the renderer begins another call is left open.
RenderFairSpec ==
    /\ TeardownInit /\ [][RenderNext]_vars
    /\ WF_vars(RenderCallStep) /\ WF_vars(WorkerStep) /\ WF_vars(PresentThreadStep)
    /\ WF_vars(GpuTransfer) /\ WF_vars(GpuSignal) /\ WF_vars(DisplayImage)

\* The render loop in asynchronous mode, on a surface that raises no
\* condition, with the frame ring SetImageCount gives for the swapchain.
LoopInit ==
    /\ SchedulerInit
    /\ op_limit = MaxLoopOps
    /\ use_present_thread = TRUE
    /\ \E swapchain_images \in 1..MaxSwapchainImages :
        /\ image_count = SetImageCount(swapchain_images)
        /\ free_queue = [i \in 1..SetImageCount(swapchain_images) |-> i]
        /\ present_done = [f \in 1..SetImageCount(swapchain_images) |-> TRUE]
    /\ present_queue = <<>>
    /\ held = {}
    /\ rframe = 0
    /\ pc_t = "top"
    /\ pframe = 0
    /\ present_stop = FALSE
    /\ copy = NoCopy
    /\ faults = MaxFaults
    /\ recycled = 0
    /\ sync = NoSync

\* The loop begins with GetRenderFrame and comes back to it after Present.
LoopGetRenderFrame == call.name \in {"none", "Present"} /\ GetRenderFrame

\* The renderer records a closure of its own for the frame it got.
LoopRecord == call.name = "GetRenderFrame" /\ Record

\* GetRenderFrame -> record -> Flush(render_ready) -> Present(frame), again
\* and again, with the worker, the present thread and the GPU alongside.
LoopNext ==
    \/ LoopGetRenderFrame \/ LoopRecord \/ FlushRenderReady \/ PresentRendered
    \/ PopFree \/ WaitFence
    \/ SubmitExecution \/ RecordClosure \/ MarkSubmit \/ DispatchWork
    \/ AcquireNewChunk \/ Return
    \/ WorkerLoop \/ WorkerWait \/ WorkerCheckStop \/ WorkerExchangeLock
    \/ WorkerScopeExit \/ WorkerLockSubmit \/ ExecuteCommand \/ ExecuteAllDone \/ WorkerAllocate
    \/ WorkerRecycle
    \/ PresentThreadPop \/ PresentThreadExchangeLock \/ PresentThreadScopeExit
    \/ PresentThreadFree
    \/ AcquireNextImage \/ CopyLockSubmit \/ QueueSubmit \/ SwapchainPresent
    \/ GpuTransfer \/ GpuSignal

\* The steps of the renderer inside a call of the loop it has begun.
LoopCallStep ==
    \/ PopFree \/ WaitFence
    \/ SubmitExecution \/ RecordClosure \/ MarkSubmit \/ DispatchWork
    \/ AcquireNewChunk \/ Return

\* The render loop under fair scheduling of the threads, with a GPU that
\* completes what it was given. Whether the renderer begins the next call of
\* the loop is left open.
LoopSpec ==
    /\ LoopInit /\ [][LoopNext]_vars
    /\ WF_vars(LoopCallStep) /\ WF_vars(WorkerStep) /\ WF_vars(PresentThreadStep)
    /\ WF_vars(GpuTransfer) /\ WF_vars(GpuSignal)

\* Every call of the renderer that takes a mutex of the Scheduler or the
\* PresentManager, in any order, with the worker and the present thread
\* alongside, on a surface that raises no condition.
MutexNext ==
    \/ Record \/ Flush \/ Finish \/ WaitWorker
    \/ GetRenderFrame \/ Present \/ WaitPresent
    \/ PopFree \/ WaitFence \/ PushFree
    \/ WaitIdle \/ WaitPresentQueue \/ LockSwapchain
    \/ SubmitExecution \/ RecordClosure \/ MarkSubmit \/ DispatchWork
    \/ AcquireNewChunk \/ WaitUntilTick \/ FinishWait \/ WaitQueueEmpty
    \/ LockExecution \/ UnlockExecution \/ Return
    \/ WorkerLoop \/ WorkerWait \/ WorkerCheckStop \/ WorkerExchangeLock
    \/ WorkerScopeExit \/ WorkerLockSubmit \/ ExecuteCommand \/ ExecuteAllDone \/ WorkerAllocate
    \/ WorkerRecycle
    \/ PresentThreadPop \/ PresentThreadExchangeLock \/ PresentThreadScopeExit
    \/ PresentThreadFree
    \/ AcquireNextImage \/ CopyLockSubmit \/ QueueSubmit \/ SwapchainPresent
    \/ GpuComplete

MutexSpec == TeardownInit /\ [][MutexNext]_vars

\* The presentation loop on a device that can be lost. A thread whose
\* function an exception has left takes no further step; what the rest of the
\* process does until it is gone is left open.
LossNext ==
    \/ PresentNext
    \/ CopyDeviceLost \/ PresentThrows \/ PresentThreadThrows
    \/ SubmitDeviceLost

LossSpec == PresentInit /\ [][LossNext]_vars

----------------------------------------------------------------------------
\* Properties of the scheduler

\* The stamps 1..n in order.
InOrder(n) == [i \in 1..n |-> i]

\* The stamps of the closures of a sequence of chunks, in order.
RECURSIVE StampsOf(_)
StampsOf(chunks) ==
    IF chunks = <<>> THEN <<>>
    ELSE [i \in 1..Len(chunks[1].cmds) |-> chunks[1].cmds[i].stamp]
           \o StampsOf(Tail(chunks))

StrictlyIncreasing(seq) == \A i, j \in 1..Len(seq) : i < j => seq[i] < seq[j]

IsPrefix(a, b) == Len(a) <= Len(b) /\ \A i \in 1..Len(a) : a[i] = b[i]

\* The worker holds a popped chunk whose execution has not finished.
MidExecution == pc_w \in {"check", "exchange", "scope_exit", "execute", "allocate"}

\* C1: when Finish returns, the worker has executed every closure recorded so
\* far (the M closures of the renderer and the submission closure of Finish),
\* each exactly once and in recording order.
C1_FinishExecutesAll == last_ret = "Finish" => executed = InOrder(rec_count)

\* C1 witness: Finish has returned after more closures than one chunk holds.
C1_Witness == last_ret = "Finish" /\ rec_count > ChunkCapacity /\ Len(executed) = rec_count

\* C2: the worker executes the closures in recording order, and the closures
\* still waiting (in the chunk being executed, then in the work queue in
\* queue order, then in the producer's chunk) are in recording order too: the
\* work queue is first-in first-out and nothing overtakes.
C2_ProgramOrder ==
    /\ \A i \in 1..Len(executed) : executed[i] = i
    /\ StrictlyIncreasing(executed \o StampsOf(<<work>> \o work_queue \o <<chunk>>))

\* C2 witness: closures of a second chunk have run while a third chunk waits.
C2_Witness == Len(executed) > ChunkCapacity /\ Len(work_queue) >= 1

\* C3: the ticks returned by the Flush calls made so far are strictly
\* increasing in call order.
C3_FlushTicksIncrease == StrictlyIncreasing(flushed)

\* C3 witness: two Flush calls have returned with a Finish between them.
C3_Witness == Len(flushed) >= 2 /\ flushed[2] > flushed[1] + 1

\* C4: a tick returned by Flush is reported completed exactly when the GPU
\* has completed the submission that signals it (gpu_done only grows, so a
\* completed tick stays completed).
C4_TickCompleted ==
    \A i \in 1..Len(flushed) : IsTickCompleted(flushed[i]) <=> flushed[i] \in gpu_done

\* C4 witness: of two flushed ticks the first is completed, the second not yet.
C4_Witness ==
    /\ Len(flushed) >= 2
    /\ IsTickCompleted(flushed[1])
    /\ ~IsTickCompleted(flushed[2])
    /\ flushed[2] \in {b.tick : b \in {gpu_queue[k] : k \in 1..Len(gpu_queue)}}

\* C5: the signal values of the worker's SubmitQueue calls are, in order, the
\* ticks the producer took in SubmitExecution, and are strictly increasing.
C5_SubmitOrder == IsPrefix(submitted, assigned) /\ StrictlyIncreasing(submitted)

\* C5 witness: two submissions made while the producer has taken a third tick.
C5_Witness == Len(submitted) >= 2 /\ Len(assigned) > Len(submitted)

\* C6: when WaitWorker returns, the work queue is empty, the worker is not in
\* the middle of a chunk and every recorded closure has been executed.
C6_WaitWorkerBarrier ==
    last_ret = "WaitWorker" =>
        /\ work_queue = <<>>
        /\ ~MidExecution
        /\ executed = InOrder(rec_count)

\* C7: while the worker executes a chunk (ExecuteAll and the reallocation of
\* the command buffers) it holds execution_mutex.
C7_ExecutionMutexHeld ==
    pc_w \in {"execute", "allocate"} => mutex["execution_mutex"] = "worker"

\* C8: when WaitWorker returns, every tick returned by an earlier Flush is
\* completed.
C8_WaitWorkerGpuIdle ==
    last_ret = "WaitWorker" => \A i \in 1..Len(flushed) : IsTickCompleted(flushed[i])


\* C17: while the Scheduler runs, the closures the worker has executed,
\* followed by those of the chunk it holds, of the queued chunks and of the
\* producer's chunk, are exactly the recorded closures in recording order
\* (none dropped, duplicated or reordered when a full chunk is dispatched and
\* recording goes on in a new one), and no chunk holds more than its capacity.
C17_ChunkBoundary ==
    /\ ~stop_requested =>
          executed \o StampsOf(<<work>> \o work_queue \o <<chunk>>) = InOrder(rec_count)
    /\ \A c \in {work, chunk} \cup {work_queue[k] : k \in 1..Len(work_queue)} :
          Len(c.cmds) <= ChunkCapacity

\* C17 witness: more closures than one chunk holds were recorded without any
\* Flush or Finish, so that the full chunk was dispatched by Record itself, and
\* the worker has executed them all.
C17_Witness ==
    /\ assigned = <<>>
    /\ rec_count > ChunkCapacity
    /\ executed = InOrder(rec_count)

\* C21: with the worker scheduled fairly and the GPU completing every batch,
\* from some moment on GetCompletedTick() equals the tick the last Flush
\* returned.
C21_LastFlushCompletes ==
    <>[](flushed # <<>> => GetCompletedTick = flushed[Len(flushed)])

\* C21 witness: three Flush calls were made and GetCompletedTick() is the
\* tick of the third.
C21_Witness ==
    /\ Len(flushed) = 3
    /\ todo = <<>>
    /\ GetCompletedTick = flushed[3]

\* The chunk holds a submission closure.
HoldsSubmission(c) == \E i \in 1..Len(c.cmds) : c.cmds[i].kind = "submit"

\* The worker has executed the submission closure of a marked chunk and has
\* not yet allocated the command buffers that follow it.
RotationPending ==
    /\ pc_w \in {"execute", "allocate"}
    /\ is_submission
    /\ ~HoldsSubmission(work)

\* C20: the worker has allocated fresh command buffers once for every marked
\* chunk it has executed (one allocation is outstanding while it is between
\* the chunk's submission and the allocation) and never for another chunk;
\* a queued chunk carries the marker exactly when it holds a submission; and
\* once the worker has caught up with a running Scheduler, the command
\* buffers were rotated once per Flush or Finish.
C20_RotationPerSubmission ==
    /\ cmdbuf_gen - 1 + (IF RotationPending THEN 1 ELSE 0) = Len(submitted)
    /\ pc_w = "allocate" => is_submission
    /\ \A k \in 1..Len(work_queue) : HasSubmit(work_queue[k]) <=> HoldsSubmission(work_queue[k])
    /\ (~stop_requested /\ todo = <<>> /\ work_queue = <<>> /\ pc_w = "wait") =>
          cmdbuf_gen - 1 = Len(assigned)

\* C20 witness: three Flush calls, the worker has executed their chunks and
\* the command buffers were rotated three times.
C20_Witness ==
    /\ Len(flushed) = 3
    /\ todo = <<>> /\ work_queue = <<>> /\ pc_w = "wait"
    /\ cmdbuf_gen = 4

\* C18 as stated: two RequestRenderpass calls in a row with the same
\* framebuffer record exactly one begin-render-pass closure between them.
C18_ExactlyOneBegin ==
    call.name = "RequestRenderpass" /\ call.repeat /\ todo = <<>> =>
        call.prev_begins + call.begins = 1

\* C18 (amended): the second of two RequestRenderpass calls in a row with the
\* same framebuffer records nothing; the first records one begin-render-pass
\* closure when the framebuffer was not the one of the active render pass,
\* and none when it was.
C18_RequestRenderpassIdempotent ==
    call.name = "RequestRenderpass" /\ call.repeat =>
        /\ call.begins = 0
        /\ call.result = "same"
        /\ call.prev_result \in {"same", "changed"}
        /\ call.prev_begins = (IF call.prev_result = "changed" THEN 1 ELSE 0)
        /\ SameRenderpass(Framebuffers[call.arg])

\* C18 witness: the second call has returned after a first call that began
\* a render pass on the framebuffer that differs in its render area only.
C18_Witness ==
    /\ call.name = "RequestRenderpass" /\ call.repeat /\ todo = <<>>
    /\ call.arg = 3
    /\ call.prev_begins = 1 /\ call.begins = 0

\* C19 as stated: two UpdateGraphicsPipeline calls in a row with the same
\* pipeline return true, then false.
C19_TrueThenFalse ==
    call.name = "UpdateGraphicsPipeline" /\ call.repeat /\ todo = <<>> =>
        call.prev_result = "true" /\ call.result = "false"

\* C19 (amended): the second of two UpdateGraphicsPipeline calls in a row
\* with the same pipeline returns false; any call returns true exactly when
\* the pipeline is not the cached one, so the first returns true unless the
\* pipeline was already cached.
C19_ChangeDetection ==
    /\ [](call.name = "UpdateGraphicsPipeline" /\ call.repeat =>
             call.result = "false" /\ state.graphics_pipeline = call.arg)
    /\ [][todo = <<>> /\ todo' # <<>> /\ call'.name = "UpdateGraphicsPipeline" =>
             call'.result = (IF state.graphics_pipeline = call'.arg THEN "false" ELSE "true")]_vars

\* C19 witness: the second call has returned false after a first call that
\* returned true.
C19_Witness ==
    /\ call.name = "UpdateGraphicsPipeline" /\ call.repeat /\ todo = <<>>
    /\ call.prev_result = "true" /\ call.result = "false"

\* C22: a stubbed InnerFence is signaled in every state, queued or not and
\* whatever the value of the timeline; IsFenceSignaled returns true for it
\* and WaitFence on it waits for no tick.
C22_StubbedFenceSignaled ==
    /\ \A f \in 1..MaxFences :
          fences[f].created /\ fences[f].is_stubbed => FenceIsSignaled(f)
    /\ call.name = "IsFenceSignaled" /\ fences[call.arg].is_stubbed => call.result = "true"
    /\ call.name = "WaitFence" /\ fences[call.arg].is_stubbed =>
          \A i \in 1..Len(todo) : todo[i].op # "WaitUntilTick"

\* C22 witness: WaitFence has returned for a stubbed fence that was queued
\* with a tick the GPU has not completed.
C22_Witness ==
    /\ call.name = "WaitFence" /\ last_ret = "WaitFence"
    /\ fences[call.arg].is_stubbed
    /\ fences[call.arg].queued > 0
    /\ ~IsTickCompleted(fences[call.arg].wait_tick)

\* C23: WaitFence on a fence that is not stubbed and was never queued does
\* not return normally.
C23_UnqueuedWaitFails ==
    ~(call.name = "WaitFence" /\ call.result = "not_queued" /\ last_ret = "WaitFence")

\* C24: a queued fence keeps the tick it captured when it was first queued.
C24_TickFixed ==
    \A f \in 1..MaxFences : fences[f].queued > 0 => fences[f].wait_tick = fences[f].first_tick

\* Every batch of the graphics queue is still there after the step, or it is
\* the first one and the GPU has completed it.
BatchesKept ==
    \A i \in 1..Len(gpu_queue) :
        \/ \E j \in 1..Len(gpu_queue') : gpu_queue'[j] = gpu_queue[i]
        \/ /\ i = 1
           /\ IF gpu_queue[1].kind = "render"
                THEN gpu_value' = gpu_queue[1].tick
                ELSE present_done'[gpu_queue[1].frame]

\* A thread whose function has returned stays there and takes nothing from
\* its queue in the step.
ReturnedThreadsIdle ==
    /\ (pc_w = "exit") =>
          (pc_w' = "exit" /\ work' = work /\ Len(work_queue') >= Len(work_queue))
    /\ (pc_t = "exit") =>
          (pc_t' = "exit" /\ pframe' = pframe /\ Len(present_queue') >= Len(present_queue))

Torn(step) == \E i \in 1..Len(teardown) : teardown[i] = step

\* If the destructors have done `late`, they have done `early` before it.
TornBefore(early, late) ==
    \A j \in 1..Len(teardown) :
        teardown[j] = late => \E i \in 1..(j - 1) : teardown[i] = early

\* C26: in ~Scheduler the stop request comes before the join and the join
\* before the destruction of the command pool and the master semaphore; in
\* ~PresentManager with a present thread the stop request comes before the
\* join and the join before WaitIdle, frames.clear() and DestroyCommandPool;
\* and once a join has returned the thread's function has returned, so the
\* thread takes no step after any of the resources is destroyed.
C26_DestructionOrder ==
    /\ TornBefore("worker.request_stop", "worker.join")
    /\ TornBefore("worker.join", "~command_pool")
    /\ TornBefore("worker.join", "~master_semaphore")
    /\ Torn("worker.join") => pc_w = "exit"
    /\ use_present_thread =>
          /\ TornBefore("present.request_stop", "present.join")
          /\ TornBefore("present.join", "WaitIdle")
          /\ TornBefore("present.join", "frames.clear")
          /\ TornBefore("present.join", "DestroyCommandPool")
    /\ Torn("present.join") => pc_t = "exit"
    /\ Torn("frames.clear") => pc_t \in {"exit", "none"}

\* C26 witness: after a Flush, the PresentManager with its present thread
\* and then the Scheduler were destroyed to the end.
C26_Witness ==
    /\ use_present_thread
    /\ submitted # <<>>
    /\ Torn("DestroyCommandPool")
    /\ Torn("~master_semaphore")

\* Flush or Finish.
Submissions == {"Flush", "Finish"}

\* The call that begins right after Flush or Finish has returned: a
\* RequestRenderpass finds its framebuffer not active, an
\* UpdateGraphicsPipeline returns true.
AfterSubmission ==
    (last_ret \in Submissions /\ todo = <<>> /\ todo' # <<>>) =>
        /\ (call'.name = "RequestRenderpass") => (call'.result = "changed")
        /\ (call'.name = "UpdateGraphicsPipeline") => (call'.result = "true")

\* C27: when Flush or Finish has returned the cached render pass,
\* framebuffer and graphics pipeline are null and the rescaling state is
\* undefined; a RequestRenderpass that follows finds no framebuffer active and
\* has recorded one begin-render-pass closure when it returns, and an
\* UpdateGraphicsPipeline that follows returns true.
C27_SubmissionInvalidates ==
    /\ [](last_ret \in Submissions =>
             /\ state.renderpass = 0 /\ state.framebuffer = 0
             /\ state.graphics_pipeline = 0 /\ ~state.rescaling_defined)
    /\ [][AfterSubmission]_vars
    /\ [](call.name = "RequestRenderpass" /\ call.result = "changed"
             /\ last_ret = "RequestRenderpass" => call.begins = 1)

\* C27 witness: a render pass was begun, Flush or Finish submitted, and the
\* RequestRenderpass that followed has begun a render pass again.
C27_Witness ==
    /\ recorded = <<"begin", "end", "submit", "begin">>
    /\ call.name = "RequestRenderpass" /\ last_ret = "RequestRenderpass"

\* The recorded stream has a render pass open after its first n closures.
PassOpenAfter(n) ==
    LET marks == {i \in 1..n : recorded[i] \in {"begin", "end"}}
    IN  marks # {} /\ recorded[CHOOSE i \in marks : \A j \in marks : j <= i] = "begin"

\* C28: in the recorded stream a begin-render-pass closure comes only with no
\* render pass open, an end-render-pass closure only with one open, and a
\* submission closure only with none open.
C28_RenderPassAlternates ==
    \A i \in 1..Len(recorded) :
        /\ recorded[i] = "begin" => ~PassOpenAfter(i - 1)
        /\ recorded[i] = "end" => PassOpenAfter(i - 1)
        /\ recorded[i] = "submit" => ~PassOpenAfter(i - 1)

\* C28 witness: a render pass was begun, ended by the request for another
\* framebuffer, which began the next, and that one was ended by a submission.
C28_Witness ==
    recorded = <<"begin", "end", "begin", "end", "submit">>

\* The places a CommandChunk can be in, as the ids of the chunks there: the
\* producer's current chunk, the work queue, the worker's `work`, the reserve.
ChunkPlaces ==
    <<IF chunk = NoChunk THEN <<>> ELSE <<chunk.id>>,
      [k \in 1..Len(work_queue) |-> work_queue[k].id],
      IF work = NoChunk THEN <<>> ELSE <<work.id>>,
      [k \in 1..Len(chunk_reserve) |-> chunk_reserve[k].id]>>

\* How many times chunk id is found in the places.
PlacesOf(id) ==
    Cardinality(UNION {{<<p, k>> : k \in {j \in 1..Len(ChunkPlaces[p]) :
                                             ChunkPlaces[p][j] = id}} : p \in 1..4})

\* C31: no chunk is in two places, and until the Scheduler is stopped every
\* chunk made is in exactly one; the chunks of the work queue hold at least
\* one command; the chunks of the reserve, and the chunk AcquireNewChunk has
\* just handed out, are empty with the submission marker cleared.
C31_ChunkLifecycle ==
    /\ \A id \in 1..chunks_made :
           /\ PlacesOf(id) <= 1
           /\ ~stop_requested => PlacesOf(id) = 1
    /\ \A k \in 1..Len(work_queue) : ~Empty(work_queue[k])
    /\ \A k \in 1..Len(chunk_reserve) :
           Empty(chunk_reserve[k]) /\ ~HasSubmit(chunk_reserve[k])
    /\ (call.name \in {"Flush", "Finish"} /\ todo # <<>>
          /\ Cur.op \in {"Return", "WaitSignalValue"})
           => Empty(chunk) /\ ~HasSubmit(chunk)

\* C31 witness: a chunk that held a submission has come back from the reserve
\* as the current chunk, another waits in the work queue and a third is in
\* the worker's hands.
C31_Witness ==
    /\ chunk # NoChunk /\ chunk.id < chunks_made
    /\ work_queue # <<>>
    /\ work # NoChunk
    /\ Len(submitted) >= 1

\* The flag of an UpdateRescaling call, from the argument kept of it.
FlagOf(arg) == arg = 1

\* An UpdateRescaling call begins.
UpdateRescalingBegins == todo = <<>> /\ todo' # <<>> /\ call'.name = "UpdateRescaling"

\* What C32 says of the step in which UpdateRescaling runs.
UpdateRescalingResult ==
    UpdateRescalingBegins =>
        /\ (call'.result = "true") <=>
               (~state.rescaling_defined \/ state.is_rescaling # FlagOf(call'.arg))
        /\ call'.result \in {"true", "false"}
        /\ state'.rescaling_defined /\ state'.is_rescaling = FlagOf(call'.arg)

\* C32: UpdateRescaling(flag) returns true exactly when the rescaling state
\* is undefined or the flag differs from the cached one, and false otherwise;
\* after it the cached flag is the argument; a call that repeats the one just
\* before it returns false; the state is undefined after construction and
\* after a submission.
C32_UpdateRescaling ==
    /\ [][UpdateRescalingResult]_vars
    /\ [](call.name = "UpdateRescaling" /\ call.repeat => call.result = "false")
    /\ [](call.name = "none" \/ (call.name = "Flush" /\ todo = <<>>)
             => ~state.rescaling_defined)

\* C32 witness: after a submission, UpdateRescaling has returned true and,
\* repeated at once with the same flag, false.
C32_Witness ==
    /\ call.name = "UpdateRescaling" /\ call.repeat /\ todo = <<>>
    /\ call.prev_result = "true" /\ call.result = "false"
    /\ Len(flushed) = 1
    /\ nops = 4

\* The pipeline-barrier calls the closure has put in the command buffer.
PipelineBarriers ==
    {k \in 1..Len(barrier.cmds) : barrier.cmds[k].cmd = "PipelineBarrier"}

\* C33: the closure of EndRenderPass, run for n attachments, makes exactly one
\* pipeline-barrier call, with min(n, 9) image barriers, all of them written;
\* no slot outside the 9-entry array is ever written.
C33_BarrierClamp ==
    /\ ~barrier.overrun
    /\ barrier.pc = "done" =>
           /\ Cardinality(PipelineBarriers) = 1
           /\ \A k \in PipelineBarriers :
                  barrier.cmds[k].count = Min(barrier.num_images, 9)
           /\ \A slot \in 0..(MAX_BARRIERS - 1) :
                  barrier.barriers[slot] # "unset" <=> slot < Min(barrier.num_images, 9)

\* C33 witness: the closure has run for more than nine attachments.
C33_Witness ==
    /\ barrier.pc = "done"
    /\ barrier.num_images > 9
    /\ barrier.cmds[2] = [cmd |-> "PipelineBarrier", count |-> 9]

\* The memory types the last CreateBuffer kept the allocation away from.
ExcludedTypes == DOMAIN allocator.memory_types \ AcceptedTypes

\* The device-local host-visible memory types whose heap is at most 256 MiB.
SmallSharedTypes ==
    {i \in DOMAIN allocator.memory_types :
        /\ allocator.memory_types[i].device_local
        /\ allocator.memory_types[i].host_visible
        /\ allocator.memory_types[i].heap_size <= 268435456}

\* C34: a buffer is kept away from exactly the device-local host-visible
\* memory types with a heap of at most 256 MiB when it is a Stream buffer and
\* a debugging tool is attached, and from no memory type otherwise.
C34_StreamExclusion ==
    allocator.pc = "created" =>
        ExcludedTypes = IF allocator.usage = "Stream" /\ allocator.debugging
                          THEN SmallSharedTypes
                          ELSE {}

\* The worker lets go of the chunk it took from the work queue.
WorkerReleasesChunk == work # NoChunk /\ work' = NoChunk

\* Every closure of the chunk has run and the chunk is put at the back of the
\* reserve.
ChunkExecutedAndReturned ==
    /\ work.cmds = <<>>
    /\ chunk_reserve' = Append(chunk_reserve, work)

\* C35: a chunk the worker has taken from the work queue leaves its hands only
\* executed in full and returned to the reserve, also when a stop is
\* requested while the worker waits for or dequeues it.
C35_DequeuedChunkReturned ==
    [][WorkerReleasesChunk => ChunkExecutedAndReturned]_vars

----------------------------------------------------------------------------
\* Properties of the present manager

\* How many times a frame occurs in a queue.
Occurrences(queue, frame) == Cardinality({i \in 1..Len(queue) : queue[i] = frame})

\* The frame has a copy batch in the graphics queue that the GPU has not
\* completed.
CopyPending(frame) ==
    \E k \in 1..Len(gpu_queue) : gpu_queue[k].kind = "copy" /\ gpu_queue[k].frame = frame

\* C29: every image displayed shows a copy that the GPU ran after the
\* rendering of its Frame had completed (the copy waits for render_ready at
\* the transfer stage), and is displayed after that copy (the present request
\* waits for copy_complete).
C29_DisplayedAfterRenderAndCopy ==
    \A i \in 1..sync.displayed :
        /\ i <= Len(sync.transferred)
        /\ sync.transferred[i].rendered

\* C30: at most one thread is inside a native queue submission at any time,
\* and a thread inside one holds submit_mutex.
C30_SubmissionsExclusive ==
    /\ Cardinality(submitting) <= 1
    /\ \A who \in submitting : mutex["submit_mutex"] = who

\* C30 witness: the worker is inside its SubmitQueue call while the thread
\* that copies a frame to the swapchain has reached its queue submission.
C30_Witness ==
    /\ "worker" \in submitting
    /\ copy.pc = "submit"
    /\ CopyThread \notin submitting

\* C9: no Frame is in the free queue and in the present queue at once, and no
\* Frame is twice in either queue, in synchronous and asynchronous mode.
C9_FrameInOneQueue ==
    \A frame \in FrameIds :
        Occurrences(free_queue, frame) + Occurrences(present_queue, frame) <= 1

\* C9 witness, asynchronous mode: the worker has put a presented frame in
\* the present queue while another frame is in the free queue.
C9_Witness ==
    /\ use_present_thread
    /\ present_queue # <<>>
    /\ free_queue # <<>>

\* C10: when GetRenderFrame has returned a Frame, the previous copy submission
\* that used the Frame has completed on the GPU (none is pending), and the
\* Frame's present_done fence is unsignaled.
C10_FrameHandedAfterCopy ==
    last_ret = "GetRenderFrame" => ~present_done[rframe] /\ ~CopyPending(rframe)


\* The present thread has taken a frame from the present queue and its
\* CopyToSwapchain call has not returned.
PresentInFlight ==
    \/ pc_t \in {"exchange", "scope_exit"}
    \/ pc_t = "copy" /\ copy.pc # "done"

\* C11: asynchronous mode, every presented frame handed to the present queue
\* before the call: when WaitPresent returns, the present queue is empty and
\* the present thread has no copy-to-swapchain/present operation in flight.
C11_WaitPresentBarrier ==
    (last_ret = "WaitPresent" /\ use_present_thread /\ call.quiet) =>
        present_queue = <<>> /\ ~PresentInFlight


\* The worker executes a Present closure, having executed every closure
\* recorded before it, and the closure's frame goes to the back of the
\* present queue.
WorkerPushesFrame ==
    /\ pc_w = "execute"
    /\ work.cmds # <<>>
    /\ work.cmds[1].kind = "present"
    /\ executed = InOrder(work.cmds[1].stamp - 1)
    /\ present_queue' = Append(present_queue, work.cmds[1].val)

\* C12: asynchronous mode: a frame whose Present closure the worker has not
\* executed is not in the present queue, and a frame enters the present queue
\* only by the worker executing that closure, after every closure recorded
\* before it (the submission closure of an earlier Flush included).
C12_FrameQueuedByWorker ==
    /\ [](use_present_thread =>
            \A c \in PendingPresents : Occurrences(present_queue, c.val) = 0)
    /\ [][(use_present_thread /\ Len(present_queue') > Len(present_queue))
            => WorkerPushesFrame]_vars

\* C12 witness: Flush, Present, Flush: the worker has executed the first
\* submission closure and then the Present closure, whose frame is in the
\* present queue; the second submission closure is next.
C12_Witness ==
    /\ use_present_thread
    /\ pc_w = "execute"
    /\ work.cmds # <<>>
    /\ Len(executed) = 2
    /\ Len(submitted) = 1
    /\ present_queue # <<>>


\* C13: synchronous mode: when Present(frame) returns, CopyToSwapchain has run
\* to its end on the calling thread (the frame's copy batch was submitted)
\* and the frame is in the free queue; the present queue stays empty, and
\* while the call runs no closure is recorded in the Scheduler and no chunk
\* is dispatched.
C13_SyncPresent ==
    /\ [](~use_present_thread =>
            /\ present_queue = <<>>
            /\ PendingPresents = {}
            /\ pc_t = "none"
            /\ last_ret = "Present" =>
                  /\ copy.pc = "idle"
                  /\ Occurrences(free_queue, call.arg) = 1
                  /\ CopyPending(call.arg) \/ present_done[call.arg])
    /\ [][(~use_present_thread /\ call.name = "Present" /\ todo # <<>>) =>
             /\ rec_count' = rec_count
             /\ chunk' = chunk
             /\ Len(work_queue') <= Len(work_queue)]_vars

\* C13 witness: a synchronous Present has returned, its frame is in the free
\* queue and the GPU has not completed the copy yet.
C13_Witness ==
    /\ ~use_present_thread
    /\ last_ret = "Present"
    /\ Occurrences(free_queue, call.arg) = 1
    /\ CopyPending(call.arg)


----------------------------------------------------------------------------
\* Properties of the presentation retry loop

\* The conditions the CopyToSwapchain call in progress has met, in order.
Raised(log) ==
    SelectSeq(log, LAMBDA e : e \in Recoverable \cup {"outdated", "device_lost"})

\* The last n entries of a log.
LastOf(log, n) == SubSeq(log, Len(log) - n + 1, Len(log))

\* C14: a CopyToSwapchain call whose only condition is one swapchain-out-of-date
\* failure of CopyToSwapchainImpl calls RecreateSwapchain exactly once (after
\* the failure, and not CreateSurface), then makes the attempt that presents,
\* and returns without an exception.
C14_OutOfDateRetry ==
    Raised(copy.log) = <<"out_of_date">> =>
        /\ copy.pc # "escaped"
        /\ Occurrences(copy.log, "CreateSurface") = 0
        /\ Occurrences(copy.log, "RecreateSwapchain") =
              (IF copy.pc = "recreate" THEN 0 ELSE 1)
        /\ copy.pc = "done" =>
              LastOf(copy.log, 3) = <<"RecreateSwapchain", "Submit", "Present">>

\* C14 witness: the call has returned after an attempt that failed with
\* out-of-date at the present, past the queue submission, and one retry.
C14_Witness ==
    /\ copy.pc = "done"
    /\ copy.log = <<"Submit", "out_of_date", "RecreateSwapchain", "Submit", "Present">>


C16_DeviceLostEscalated ==
    /\ device.reported = device.lost
    /\ device.thrown = device.lost
    /\ Occurrences(copy.log, "device_lost") > 0 =>
          /\ copy.pc = "escaped"
          /\ LastOf(copy.log, 2) = <<"device_lost", "ReportLoss">>
    /\ pc_t = "terminated" => copy.pc = "escaped"
    /\ pc_w = "terminated" =>
          /\ work.cmds # <<>>
          /\ work.cmds[1].kind = "submit"
          /\ \A i \in 1..Len(submitted) : submitted[i] # work.cmds[1].val

\* C16 witness: a presentation attempt lost the device at the present, after
\* its queue submission; the loss is reported and the call has thrown.
C16_Witness ==
    /\ device.lost = 1
    /\ copy.pc = "escaped"
    /\ copy.log = <<"Submit", "device_lost", "ReportLoss">>

\* The render submission that signals the frame's render_ready has been issued
\* to the graphics queue: its batch is in the queue, or the GPU has completed
\* it and the semaphore is signaled.
RenderSubmissionIssued(frame) ==
    \/ frame \in sync.render_ready
    \/ \E k \in 1..Len(gpu_queue) :
           gpu_queue[k].kind = "render" /\ gpu_queue[k].frame = frame

\* The present-copy submission of CopyToSwapchainImpl is issued in
\* synchronous mode.
SyncCopySubmissionIssued ==
    ~use_present_thread /\ copy.pc = "submit" /\ copy'.pc = "present"

\* C36: in synchronous mode, after Flush(render_ready) and Present(frame), the
\* present-copy submission of the frame is issued only once the worker has
\* issued the render submission that signals the frame's render_ready.
C36_CopyIssuedAfterRender ==
    [][SyncCopySubmissionIssued => RenderSubmissionIssued(copy.frame)]_vars

\* The frame is in the free queue.
InFreeQueue(frame) == \E k \in 1..Len(free_queue) : free_queue[k] = frame

\* The closure that Present recorded for the frame.
IsPresentClosure(command, frame) == command.kind = "present" /\ command.val = frame

\* Asynchronous mode: the chunk that holds the frame's present closure has
\* been dispatched, it is in the work queue or in the worker's hands.
PresentClosureDispatched(frame) ==
    /\ use_present_thread
    /\ \/ \E k \in 1..Len(work_queue) : \E c \in 1..Len(work_queue[k].cmds) :
              IsPresentClosure(work_queue[k].cmds[c], frame)
       \/ \E c \in 1..Len(work.cmds) : IsPresentClosure(work.cmds[c], frame)

\* Asynchronous mode: Present(frame) is the renderer's last call.
PresentCalled(frame) ==
    use_present_thread /\ call.name = "Present" /\ call.arg = frame

\* C37, as stated: in asynchronous mode every frame passed to Present comes
\* back to the free queue, copied and presented, whatever the renderer does
\* after Present.
C37_PresentedFrameReturns ==
    \A frame \in 1..MAX_FRAMES_IN_FLIGHT : PresentCalled(frame) ~> InFreeQueue(frame)

\* C37, amended: in asynchronous mode every frame whose present closure has
\* been dispatched to the worker, by a Scheduler call after Present, comes
\* back to the free queue, copied and presented.
C37_DispatchedFrameReturns ==
    \A frame \in 1..MAX_FRAMES_IN_FLIGHT :
        PresentClosureDispatched(frame) ~> InFreeQueue(frame)

\* C37 witness: the present thread has copied and presented a frame and put
\* it back in the free queue, after the Flush that followed Present.
C37_Witness ==
    /\ use_present_thread
    /\ recycled >= 1
    /\ call.name = "Flush"
    /\ InFreeQueue(pframe)
    /\ Len(copy.log) = 0

\* The renderer is inside GetRenderFrame.
InGetRenderFrame == call.name = "GetRenderFrame" /\ todo # <<>>

\* The renderer's last call, GetRenderFrame, has returned a frame.
GetRenderFrameReturned ==
    call.name = "GetRenderFrame" /\ todo = <<>> /\ rframe \in held

\* C38: in the asynchronous render loop with a ring of 2 or 3 frames, every
\* GetRenderFrame call comes to its return.
C38_GetRenderFrameReturns == InGetRenderFrame ~> GetRenderFrameReturned

\* C38 witness: with a ring of two frames the third GetRenderFrame of the loop
\* has returned a frame that the present thread had put back.
C38_Witness ==
    /\ GetRenderFrameReturned
    /\ image_count = 2
    /\ Len(flushed) = 2
    /\ recycled >= 1
    /\ \A frame \in 1..2 : frame \in held \/ ~InFreeQueue(frame)

\* The queue submissions of the frame's copy command buffer with the frame's
\* present_done fence that the CopyToSwapchain call in progress has made.
CopySubmissions == {i \in 1..Len(copy.log) : copy.log[i] = "Submit"}

\* C39: a CopyToSwapchain call submits the frame's copy command buffer with
\* the frame's present_done fence at most once, whichever step of an attempt
\* raised the condition it retries after.
C39_CopySubmittedOnce == Cardinality(CopySubmissions) <= 1

\* The threads that take the mutexes.
Threads == {"producer", "worker", "present"}

\* The mutexes the renderer's next statement locks.
ProducerWants ==
    IF At("DispatchWork") /\ ~Empty(chunk) THEN {"queue_mutex"}
    ELSE IF At("WaitQueueEmpty") THEN {"queue_mutex"}
    ELSE IF At("AcquireNewChunk") THEN {"reserve_mutex"}
    ELSE IF At("LockExecution") THEN {"execution_mutex"}
    ELSE IF At("PopFree") THEN {"free_mutex"}
    ELSE IF At("PushFree") /\ copy.pc = "done" THEN {"free_mutex"}
    ELSE IF At("WaitPresentQueue") THEN {"present_queue_mutex"}
    ELSE IF At("LockSwapchain") THEN {"swapchain_mutex"}
    ELSE IF CopyThread = "producer" /\ copy.pc = "submit" /\ "producer" \notin submitting
      THEN {"submit_mutex"}
    ELSE {}

\* The mutexes the worker's next statement locks.
WorkerWants ==
    IF pc_w = "wait" THEN {"queue_mutex"}
    ELSE IF pc_w = "exchange" THEN {"execution_mutex"}
    ELSE IF pc_w = "recycle" THEN {"reserve_mutex"}
    ELSE IF pc_w = "execute" /\ work.cmds # <<>>
      THEN IF work.cmds[1].kind = "submit" /\ "worker" \notin submitting
             THEN {"submit_mutex"}
           ELSE IF work.cmds[1].kind = "present" THEN {"present_queue_mutex"}
           ELSE {}
    ELSE {}

\* The mutexes the present thread's next statement locks.
PresentThreadWants ==
    IF pc_t = "top" THEN {"present_queue_mutex"}
    ELSE IF pc_t = "exchange" THEN {"swapchain_mutex"}
    ELSE IF pc_t = "copy" /\ copy.pc = "done" THEN {"free_mutex"}
    ELSE IF CopyThread = "present" /\ copy.pc = "submit" /\ "present" \notin submitting
      THEN {"submit_mutex"}
    ELSE {}

Wants(thread) ==
    IF thread = "producer" THEN ProducerWants
    ELSE IF thread = "worker" THEN WorkerWants
    ELSE PresentThreadWants

\* The threads that hold a mutex the thread's next statement locks.
BlockedBy(thread) ==
    {other \in Threads \ {thread} : \E m \in Wants(thread) : mutex[m] = other}

\* C40: no set of threads is such that each of them waits for a mutex that
\* another one of them holds.
C40_NoMutexDeadlock ==
    \A waiting \in (SUBSET Threads) \ {{}} :
        \E thread \in waiting : BlockedBy(thread) \cap waiting = {}

\* C40 witness: inside WaitWorker the renderer waits for queue_mutex, which
\* the worker holds while it takes execution_mutex.
C40_Witness ==
    /\ call.name = "WaitWorker"
    /\ BlockedBy("producer") = {"worker"}
    /\ Wants("worker") = {"execution_mutex"}
    /\ mutex["queue_mutex"] = "worker"

====
